---- MODULE Spec2Model ----
(***************************************************************************)
(* Model of the AlgoLive simulation engine (market_simulation/arena.py):   *)
(* the Arena's clock thread(s), the snapshot producer, the control         *)
(* surface of backend/app.py and the order execution / risk rules.         *)
(*                                                                         *)
(* Money is counted in micro-dollars (1 dollar = Unit), quantities in      *)
(* whole units of the asset.  Python floats are modelled by integers plus  *)
(* the three IEEE special values PInf, NInf and NaN, with the arithmetic   *)
(* and comparison rules of IEEE-754 for them.  Prices and quantities are   *)
(* chosen so that slippage and fee computations are exact in micro-dollars.*)
(*                                                                         *)
(* Granularity: one agent's turn of the per-tick loop is one step, as is   *)
(* each control request (reset and soft_reset are two steps, split at      *)
(* their time.sleep(1)).  Other threads interleave between these steps.    *)
(* SpecRace splits the turn between the membership test and the lookup of  *)
(* the account, where the control thread can unload the agent.             *)
(*                                                                         *)
(* Accounts start as load_agent creates them and the store is either       *)
(* absent (db = None) or starts empty, except in SpecRestore, which runs   *)
(* the restore of saved accounts of Arena.__init__ on a store that holds   *)
(* documents.  The bounds keep every finite amount below the value         *)
(* standing for +inf.  Database calls made by the control thread itself    *)
(* (load_agent, reset, soft_reset) are modelled as succeeding, except in   *)
(* SpecLoad and SpecRestore, where the save of load_agent may raise; the   *)
(* calls of the write worker may fail.                                     *)
(*                                                                         *)
(* Rounding is modelled separately: SpecFee, SpecFill and SpecStopped run  *)
(* the fee, the arithmetic of one order and the turns after an emergency   *)
(* stop on binary floats of MantBits significant bits, rounded to nearest  *)
(* even.  SpecBrain runs the code validator of analyst_engine/brain.py on  *)
(* abstract syntax trees.                                                  *)
(***************************************************************************)
EXTENDS Integers, Sequences, FiniteSets, TLC

\* ------------------------------------------------------------------ bounds
MaxTs == 2
MaxThreads == 2
MaxCtl == 1
MaxFail == 2
MaxDbFail == 2
MaxLoads == 3
\* width of the significand of the binary floats of the fee and fill
\* computations, standing for the 53 bits of a Python float
MantBits == 14
\* most import statements in one strategy source
MaxImports == 2
\* the length the chart deque is cut to, standing for maxlen=50000
ChartMax == 1
\* ticks followed after an emergency stop
MaxStopTicks == 2

\* ------------------------------------------------------- program constants
\* one dollar in micro-dollars (the scale of the model, not of the program)
Unit == 1000 * 1000
\* STARTING_EQUITY = 100.0
STARTING_EQUITY == 100 * Unit
\* CASHOUT_THRESHOLD = 0.50 and EMERGENCY_STOP_LOSS = -2.0, in percent of
\* 100 dollars, i.e. in dollars of equity above / below the start
CASHOUT_THRESHOLD == Unit \div 2
EMERGENCY_STOP_LOSS == (-2) * Unit
\* total_equity * 4
MaxLeverage == 4
\* fee_rate = 0.00075 = FeeNumerator / FeeDivisor
FeeDivisor == 4000
FeeNumerator == 3
\* slippage is drawn from [0.0001, 0.0005]: Slippages / SlipDenominator
SlipDenominator == 10000
\* trade_history[-100:]
HistoryMax == 100
\* time.sleep(1) and time.sleep(5) of the producer, in seconds
PollDelay == 1
ErrorDelay == 5

Symbols == {"BTC", "ETH"}
AgentNames == {"A1", "A2"}
None == "None"

\* ---------------------------------------------------------- float values
PInf == 2100000000
NInf == -2100000000
NaN == 2100000001

IsNaN(x) == x = NaN
IsInf(x) == x = PInf \/ x = NInf
IsFinite(x) == ~IsNaN(x) /\ ~IsInf(x)

FNeg(a) == IF IsNaN(a) THEN NaN ELSE -a

FAdd(a, b) ==
    IF IsNaN(a) \/ IsNaN(b) THEN NaN
    ELSE IF IsInf(a) /\ IsInf(b) THEN (IF a = b THEN a ELSE NaN)
    ELSE IF IsInf(a) THEN a
    ELSE IF IsInf(b) THEN b
    ELSE a + b

FSub(a, b) == FAdd(a, FNeg(b))

Sign(a) == IF a > 0 THEN 1 ELSE IF a < 0 THEN -1 ELSE 0

FMul(a, b) ==
    IF IsNaN(a) \/ IsNaN(b) THEN NaN
    ELSE IF IsInf(a) \/ IsInf(b)
         THEN (IF a = 0 \/ b = 0 THEN NaN
               ELSE IF Sign(a) * Sign(b) > 0 THEN PInf ELSE NInf)
    ELSE a * b

\* a / b for a non-zero finite b (the only divisions the engine performs on
\* reachable states); the quotient is rounded toward minus infinity.
FDiv(a, b) ==
    IF IsNaN(a) \/ IsNaN(b) THEN NaN
    ELSE IF IsInf(a) /\ IsInf(b) THEN NaN
    ELSE IF IsInf(a) THEN (IF Sign(a) * Sign(b) > 0 THEN PInf ELSE NInf)
    ELSE IF IsInf(b) THEN 0
    ELSE a \div b

FAbs(a) == IF IsNaN(a) THEN NaN ELSE IF a < 0 THEN -a ELSE a

\* comparisons: every ordered comparison with NaN is false
FLt(a, b) == ~IsNaN(a) /\ ~IsNaN(b) /\ a < b
FLe(a, b) == ~IsNaN(a) /\ ~IsNaN(b) /\ a <= b
FGt(a, b) == FLt(b, a)
FGe(a, b) == FLe(b, a)
FEq(a, b) == ~IsNaN(a) /\ ~IsNaN(b) /\ a = b

RECURSIVE FSum(_, _)
FSum(S, f) ==
    IF S = {} THEN 0
    ELSE LET s == CHOOSE x \in S : TRUE
         IN FAdd(f[s], FSum(S \ {s}, f))

\* --------------------------------------------------- rounded arithmetic
\* A binary float m * 2^e with a significand of MantBits bits: m = 0, or
\* 2^(MantBits-1) <= |m| < 2^MantBits.  Every operation rounds its exact
\* result to the nearest such value, ties to even, as IEEE-754 does.
RECURSIVE Pow2(_)
Pow2(k) == IF k = 0 THEN 1 ELSE 2 * Pow2(k - 1)

MiniFloat(m, e) == [m |-> m, e |-> e]
FloatZero == MiniFloat(0, 0)

\* the float nearest to (n / d) * 2^e, for n > 0 and d > 0
RECURSIVE RoundTo(_, _, _)
RoundTo(n, d, e) ==
    IF n < d * Pow2(MantBits - 1) THEN RoundTo(2 * n, d, e - 1)
    ELSE IF n >= d * Pow2(MantBits) THEN RoundTo(n, 2 * d, e + 1)
    ELSE LET q == n \div d
             r == n % d
             up == 2 * r > d \/ (2 * r = d /\ q % 2 = 1)
             m == IF up THEN q + 1 ELSE q
         IN IF m = Pow2(MantBits) THEN MiniFloat(Pow2(MantBits - 1), e + 1)
            ELSE MiniFloat(m, e)

\* the float nearest to n * 2^e, for any integer n
RoundSigned(n, e) ==
    IF n = 0 THEN FloatZero
    ELSE IF n > 0 THEN RoundTo(n, 1, e)
    ELSE LET r == RoundTo(-n, 1, e) IN MiniFloat(-r.m, r.e)

\* the float nearest to n / d
FloatOf(n, d) == RoundTo(n, d, 0)

FloatNeg(a) == MiniFloat(-a.m, a.e)
FloatAbs(a) == IF a.m < 0 THEN FloatNeg(a) ELSE a

\* a * b
FloatMul(a, b) == RoundSigned(a.m * b.m, a.e + b.e)
\* a + b; an operand smaller than a quarter of the distance between the
\* other operand and its neighbours is absorbed by the rounding
FloatAdd(a, b) ==
    IF a.m = 0 THEN b
    ELSE IF b.m = 0 THEN a
    ELSE IF a.e - b.e >= MantBits + 2 THEN a
    ELSE IF b.e - a.e >= MantBits + 2 THEN b
    ELSE LET e == IF a.e < b.e THEN a.e ELSE b.e
         IN RoundSigned(a.m * Pow2(a.e - e) + b.m * Pow2(b.e - e), e)
\* a - b
FloatSub(a, b) == FloatAdd(a, FloatNeg(b))
\* a < b
FloatLt(a, b) ==
    IF a.m > 0 /\ b.m > 0 THEN a.e < b.e \/ (a.e = b.e /\ a.m < b.m)
    ELSE IF a.m < 0 /\ b.m < 0 THEN b.e < a.e \/ (a.e = b.e /\ a.m < b.m)
    ELSE a.m < b.m
\* a <= b
FloatLe(a, b) == ~FloatLt(b, a)

\* fee_rate = 0.00075 as a float
fee_rate == FloatOf(FeeNumerator, FeeDivisor)

\* A slippage in the trader's favour: a BUY is filled below the snapshot
\* price and a SELL above it.
FloatFillPrice_Favourable(decision, price, slippage) ==
    IF decision = "BUY"
    THEN FloatMul(price, FloatSub(FloatOf(1, 1), slippage))
    ELSE FloatMul(price, FloatAdd(FloatOf(1, 1), slippage))

\* price * (1 + slippage) for a BUY, price * (1 - slippage) otherwise
FloatFillPrice(decision, price, slippage) ==
    IF decision = "BUY"
    THEN FloatMul(price, FloatAdd(FloatOf(1, 1), slippage))
    ELSE FloatMul(price, FloatSub(FloatOf(1, 1), slippage))

\* cash + qty * price for an account [cash, qty] holding one symbol
FloatEquity(data, price) == FloatAdd(data.cash, FloatMul(data.qty, price))

FloatRejected(data, price) ==
    [executed |-> FALSE, price |-> price, fee |-> FloatZero, moved |-> FloatZero, data |-> data]

\* The arithmetic of _execute_order in floats, for an account [cash, qty]
\* that holds one symbol with snapshot price `snapshot`: fill price, equity,
\* fee, leverage and cash tests, and the update of cash and holding.  Yields
\* [executed, price, fee, moved, data]; moved is the cash taken (BUY) or
\* paid out (SELL).  Entry prices, counters and the trade record are those
\* of ExecuteOrder.
FloatExecuteOrder(data, decision, quantity, snapshot, slippage) ==
    IF decision = "HOLD" \/ FloatLe(quantity, FloatZero) THEN FloatRejected(data, snapshot)
    ELSE IF FloatLe(snapshot, FloatZero) THEN FloatRejected(data, snapshot)
    ELSE LET price == FloatFillPrice(decision, snapshot, slippage)
             total_equity == FloatEquity(data, snapshot)
             limit == FloatMul(total_equity, FloatOf(MaxLeverage, 1))
             held == FloatMul(FloatAbs(data.qty), snapshot)
             notional == FloatMul(quantity, price)
             fee == FloatMul(notional, fee_rate)
         IN IF decision = "BUY"
            THEN LET total_req == FloatAdd(notional, fee)
                     current_long_value == IF data.qty.m > 0 THEN held ELSE FloatZero
                     buying_power == FloatSub(limit, current_long_value)
                     allowed == IF data.qty.m < 0 THEN FloatLe(total_req, data.cash)
                                ELSE FloatLe(notional, buying_power) /\ FloatLe(total_req, data.cash)
                 IN IF allowed
                    THEN [executed |-> TRUE, price |-> price, fee |-> fee, moved |-> total_req,
                          data |-> [cash |-> FloatSub(data.cash, total_req),
                                    qty |-> FloatAdd(data.qty, quantity)]]
                    ELSE FloatRejected(data, price)
            ELSE LET proceeds == FloatSub(notional, fee)
                     current_short_value == IF data.qty.m < 0 THEN held ELSE FloatZero
                     allowed == data.qty.m > 0
                                \/ FloatLe(notional, FloatSub(limit, current_short_value))
                 IN IF allowed
                    THEN [executed |-> TRUE, price |-> price, fee |-> fee, moved |-> proceeds,
                          data |-> [cash |-> FloatAdd(data.cash, proceeds),
                                    qty |-> FloatSub(data.qty, quantity)]]
                    ELSE FloatRejected(data, price)

\* a / b, for b # 0
FloatDiv(a, b) ==
    IF a.m = 0 THEN FloatZero
    ELSE LET r == RoundTo(IF a.m < 0 THEN -a.m ELSE a.m, IF b.m < 0 THEN -b.m ELSE b.m,
                          a.e - b.e)
         IN IF (a.m < 0) # (b.m < 0) THEN FloatNeg(r) ELSE r

\* ((equity - 100) / 100) * 100
FloatRoi(equity) ==
    FloatMul(FloatDiv(FloatSub(equity, FloatOf(100, 1)), FloatOf(100, 1)), FloatOf(100, 1))

\* An emergency stop that liquidates the long position only.
FloatRiskCheck_KeepShorts(data, snapshot) ==
    LET equity == FloatEquity(data, snapshot)
        fires == FloatLe(FloatRoi(equity), FloatNeg(FloatOf(2, 1)))
        cash == IF data.qty.m > 0 THEN FloatAdd(data.cash, FloatMul(data.qty, snapshot))
                ELSE data.cash
    IN IF fires
       THEN [data |-> [cash |-> cash, qty |-> IF data.qty.m > 0 THEN FloatZero ELSE data.qty],
             equity |-> cash, cashout |-> FALSE, emergency |-> TRUE]
       ELSE [data |-> data, equity |-> equity, cashout |-> FALSE, emergency |-> FALSE]

\* The equity calculation and the two rules in floats, for an account
\* [cash, qty] that holds one symbol: equity = cash + qty * price; at
\* roi >= 0.50 the cash-out sets cash and equity to 100 and the holding to
\* 0; at roi <= -2.0 the emergency stop adds qty * price to the cash,
\* zeroes the holding and sets equity to the cash.
FloatRiskCheck(data, snapshot) ==
    LET equity == FloatEquity(data, snapshot)
        roi == FloatRoi(equity)
    IN IF FloatLe(FloatOf(1, 2), roi)
       THEN [data |-> [cash |-> FloatOf(100, 1), qty |-> FloatZero],
             equity |-> FloatOf(100, 1), cashout |-> TRUE, emergency |-> FALSE]
       ELSE IF FloatLe(roi, FloatNeg(FloatOf(2, 1)))
       THEN LET cash == IF data.qty.m # 0
                        THEN FloatAdd(data.cash, FloatMul(data.qty, snapshot))
                        ELSE data.cash
            IN [data |-> [cash |-> cash, qty |-> FloatZero],
                equity |-> cash, cashout |-> FALSE, emergency |-> TRUE]
       ELSE [data |-> data, equity |-> equity, cashout |-> FALSE, emergency |-> FALSE]

\* the record of one turn in floats: the outcome `ex` of the order of the
\* validated intent, then the outcome `risk` of the rules on the account the
\* order left
FloatTurn(ex, risk) ==
    [executed |-> ex.executed, post |-> ex.data, final |-> risk.data,
     equity |-> risk.equity, cashout |-> risk.cashout, emergency |-> risk.emergency]

\* A fee charged per order, whatever the quantity.
OrderFee_PerOrder(quantity, price) == FloatMul(price, fee_rate)

\* cost = quantity * price; fee = cost * fee_rate  (BUY)
\* revenue = quantity * price; fee = revenue * fee_rate  (SELL)
OrderFee(quantity, price) == FloatMul(FloatMul(quantity, price), fee_rate)

\* ---------------------------------------------------------- the accounts
ZeroPortfolio == [s \in Symbols |-> 0]
NoEntries == [s \in {} |-> 0]

\* load_agent: the record created for a name that is not yet loaded
NewAccount(instance) ==
    [instance |-> instance,
     equity |-> STARTING_EQUITY,
     cash |-> STARTING_EQUITY,
     total_fees |-> 0,
     portfolio |-> ZeroPortfolio,
     roi |-> 0,
     cashed_out |-> 0,
     entry_prices |-> NoEntries,
     custom_state |-> 0,
     trade_history |-> << >>,
     trades_count |-> 0,
     wins |-> 0]

\* tickers.get(s, {}).get('price', 0): a symbol missing from the snapshot
\* is carried with price 0 in px
PriceOf(tickers, s) == IF s \in DOMAIN tickers.px THEN tickers.px[s] ELSE 0

EntryOf(data, s) == IF s \in DOMAIN data.entry_prices THEN data.entry_prices[s] ELSE 0

SetEntry(e, s, v) == [x \in DOMAIN e \cup {s} |-> IF x = s THEN v ELSE e[x]]
\* A removal that leaves the entry price in place.
DelEntry_Keep(e, s) == e

DelEntry(e, s) == [x \in DOMAIN e \ {s} |-> e[x]]

\* cash + sum of qty * price over the portfolio
MarkToMarket(data, tickers) ==
    FAdd(data.cash,
         FSum(Symbols, [s \in Symbols |-> FMul(data.portfolio[s], PriceOf(tickers, s))]))

LongValue(data, tickers) ==
    FSum(Symbols, [s \in Symbols |->
        IF FGt(data.portfolio[s], 0)
        THEN FMul(data.portfolio[s], PriceOf(tickers, s)) ELSE 0])

ShortValue(data, tickers) ==
    FSum(Symbols, [s \in Symbols |->
        IF FLt(data.portfolio[s], 0)
        THEN FMul(FAbs(data.portfolio[s]), PriceOf(tickers, s)) ELSE 0])

\* fee = notional * 0.00075 (= notional * 3 / 4000)
FeeOf(notional) ==
    IF IsFinite(notional) THEN (notional \div FeeDivisor) * FeeNumerator ELSE notional

\* price * (1 + slippage) for a BUY, price * (1 - slippage) otherwise;
\* slip is the slippage in units of 0.0001
SlippedPrice(decision, price, slip) ==
    IF decision = "BUY"
    THEN (price \div SlipDenominator) * (SlipDenominator + slip)
    ELSE (price \div SlipDenominator) * (SlipDenominator - slip)

\* trade_history.append(...) followed by the [-100:] cut
AppendTrade(h, rec) ==
    LET h2 == Append(h, rec)
    IN IF Len(h2) > HistoryMax THEN SubSeq(h2, Len(h2) - HistoryMax + 1, Len(h2)) ELSE h2

TradeRec(action, symbol, quantity, price, fee) ==
    [action |-> action, symbol |-> symbol, quantity |-> quantity, price |-> price, fee |-> fee]

Rejected(data) == [executed |-> FALSE, fee |-> 0, data |-> data]

\* ------------------------------------------------- Arena._execute_order
\* BUY branch once the order is allowed: entry-price bookkeeping, trade
\* record, cash / portfolio / fee update
BuyFill(data, symbol, quantity, price, fee, total_req) ==
    LET prev_qty == data.portfolio[symbol]
        prev_entry == EntryOf(data, symbol)
        new_qty == FAdd(prev_qty, quantity)
        entries ==
            IF FLt(prev_qty, 0)
            THEN (IF FGe(new_qty, 0)
                  THEN (IF FGt(new_qty, 0)
                        THEN SetEntry(DelEntry(data.entry_prices, symbol), symbol, price)
                        ELSE DelEntry(data.entry_prices, symbol))
                  ELSE data.entry_prices)
            ELSE (IF FGt(new_qty, 0)
                  THEN (IF FGt(prev_qty, 0) /\ FGt(prev_entry, 0)
                        THEN SetEntry(data.entry_prices, symbol,
                                 FDiv(FAdd(FMul(prev_qty, prev_entry), FMul(quantity, price)),
                                      new_qty))
                        ELSE SetEntry(data.entry_prices, symbol, price))
                  ELSE data.entry_prices)
    IN [data EXCEPT
          !.trades_count = @ + 1,
          !.entry_prices = entries,
          !.trade_history = AppendTrade(@, TradeRec("BUY", symbol, quantity, price, fee)),
          !.cash = FSub(@, total_req),
          !.portfolio = [@ EXCEPT ![symbol] = FAdd(@, quantity)],
          !.total_fees = FAdd(@, fee)]

\* A BUY rule that also holds covers to the buying-power test (what the
\* branch at lines 939-943 deliberately does not do).
BuyAllowed_LeverageOnCover(data, symbol, cost, total_req, tickers) ==
    /\ FGe(FSub(FMul(MarkToMarket(data, tickers), MaxLeverage), LongValue(data, tickers)), cost)
    /\ FGe(data.cash, total_req)

\* the `allowed` flag of the BUY branch
BuyAllowed(data, symbol, cost, total_req, tickers) ==
    LET total_equity == MarkToMarket(data, tickers)
        current_long_value == LongValue(data, tickers)
        max_long == FMul(total_equity, MaxLeverage)
        buying_power == FSub(max_long, current_long_value)
        curr_qty == data.portfolio[symbol]
    IN IF FLt(curr_qty, 0)
       THEN FGe(data.cash, total_req)
       ELSE FGe(buying_power, cost) /\ FGe(data.cash, total_req)

BuyOrder(data, symbol, quantity, price, tickers) ==
    LET cost == FMul(quantity, price)
        fee == FeeOf(cost)
        total_req == FAdd(cost, fee)
    IN IF BuyAllowed(data, symbol, cost, total_req, tickers)
       THEN [executed |-> TRUE, fee |-> fee,
             data |-> BuyFill(data, symbol, quantity, price, fee, total_req)]
       ELSE Rejected(data)

\* the metrics block at the head of the SELL branch: wins for a profitable
\* sale out of a long position, then trades_count
SellMetrics(data, symbol, price) ==
    LET curr_qty == data.portfolio[symbol]
        entry_price == EntryOf(data, symbol)
        won == FGt(curr_qty, 0) /\ FGt(entry_price, 0) /\ FGt(price, entry_price)
    IN [data EXCEPT !.wins = IF won THEN @ + 1 ELSE @,
                    !.trades_count = @ + 1]

\* the leverage test of the "Opening/Increasing Short" branch
ShortAllowed(data, revenue, tickers) ==
    LET total_equity == MarkToMarket(data, tickers)
        max_short == FMul(total_equity, MaxLeverage)
        current_short_value == ShortValue(data, tickers)
    IN FGe(FSub(max_short, current_short_value), revenue)

SellOrder(data, symbol, quantity, price, tickers) ==
    LET curr_qty == data.portfolio[symbol]
        revenue == FMul(quantity, price)
        fee == FeeOf(revenue)
        proceeds == FSub(revenue, fee)
        d1 == SellMetrics(data, symbol, price)
        rec == TradeRec("SELL", symbol, quantity, price, fee)
    IN IF FLe(curr_qty, 0)
       THEN \* opening / increasing a short
            IF ShortAllowed(data, revenue, tickers)
            THEN [executed |-> TRUE, fee |-> fee,
                  data |-> [d1 EXCEPT
                      !.entry_prices = IF FEq(curr_qty, 0) THEN SetEntry(@, symbol, price) ELSE @,
                      !.cash = FAdd(@, proceeds),
                      !.portfolio = [@ EXCEPT ![symbol] = FSub(curr_qty, quantity)],
                      !.total_fees = FAdd(@, fee),
                      !.trade_history = AppendTrade(@, rec)]]
            ELSE Rejected(d1)
       ELSE \* closing a long (no leverage test on this branch)
            LET new_qty == FSub(curr_qty, quantity)
                entries ==
                    IF FLe(new_qty, 0)
                    THEN (IF FLt(new_qty, 0)
                          THEN SetEntry(DelEntry(d1.entry_prices, symbol), symbol, price)
                          ELSE DelEntry(d1.entry_prices, symbol))
                    ELSE d1.entry_prices
            IN [executed |-> TRUE, fee |-> fee,
                data |-> [d1 EXCEPT
                    !.entry_prices = entries,
                    !.cash = FAdd(@, proceeds),
                    !.portfolio = [@ EXCEPT ![symbol] = new_qty],
                    !.total_fees = FAdd(@, fee),
                    !.trade_history = AppendTrade(@, rec)]]

\* _execute_order(name, data, decision, symbol, quantity, tickers) with the
\* slippage draw slip (units of 0.0001); yields [executed, fee, data]
ExecuteOrder(data, decision, symbol, quantity, tickers, slip) ==
    IF decision = "HOLD" \/ symbol = None \/ FLe(quantity, 0) THEN Rejected(data)
    ELSE IF PriceOf(tickers, symbol) <= 0 THEN Rejected(data)
    ELSE LET price == SlippedPrice(decision, PriceOf(tickers, symbol), slip)
         IN IF decision = "BUY" THEN BuyOrder(data, symbol, quantity, price, tickers)
            ELSE IF decision = "SELL" THEN SellOrder(data, symbol, quantity, price, tickers)
            ELSE Rejected(data)

\* ------------------------------------------- the risk rules of Arena._loop
\* "Calc Equity": equity and roi (in micro-percent) from the snapshot
CalcEquity(data, tickers) ==
    LET equity == MarkToMarket(data, tickers)
    IN [data EXCEPT !.equity = equity, !.roi = FSub(equity, STARTING_EQUITY)]

\* A cash-out that books the profit and resets cash but leaves the positions.
CashOut_KeepPositions(data, tickers) ==
    [data EXCEPT
        !.cashed_out = FAdd(@, FSub(data.equity, STARTING_EQUITY)),
        !.cash = STARTING_EQUITY,
        !.equity = STARTING_EQUITY,
        !.roi = 0,
        !.entry_prices = NoEntries]

\* the body of `if data['roi'] >= CASHOUT_THRESHOLD`
CashOut(data, tickers) ==
    LET profit == FSub(data.equity, STARTING_EQUITY)
    IN [data EXCEPT
          !.cashed_out = FAdd(@, profit),
          !.portfolio = [s \in Symbols |-> IF data.portfolio[s] # 0 THEN 0 ELSE data.portfolio[s]],
          !.cash = STARTING_EQUITY,
          !.equity = STARTING_EQUITY,
          !.roi = 0,
          !.entry_prices = NoEntries]

\* An emergency stop that liquidates the long positions only.
EmergencyStop_LongsOnly(data, tickers) ==
    LET cash == FAdd(data.cash,
                  FSum(Symbols, [s \in Symbols |->
                      IF FGt(data.portfolio[s], 0)
                      THEN FMul(data.portfolio[s], PriceOf(tickers, s)) ELSE 0]))
    IN [data EXCEPT
          !.cash = cash,
          !.portfolio = [s \in Symbols |-> IF FGt(data.portfolio[s], 0) THEN 0 ELSE data.portfolio[s]],
          !.entry_prices = NoEntries,
          !.equity = cash,
          !.roi = FSub(cash, STARTING_EQUITY)]

\* the body of `if data['roi'] <= EMERGENCY_STOP_LOSS`
EmergencyStop(data, tickers) ==
    LET cash == FAdd(data.cash,
                  FSum(Symbols, [s \in Symbols |->
                      IF data.portfolio[s] # 0
                      THEN FMul(data.portfolio[s], PriceOf(tickers, s)) ELSE 0]))
    IN [data EXCEPT
          !.cash = cash,
          !.portfolio = [s \in Symbols |-> IF data.portfolio[s] # 0 THEN 0 ELSE data.portfolio[s]],
          !.entry_prices = NoEntries,
          !.equity = cash,
          !.roi = FSub(cash, STARTING_EQUITY)]

\* equity calculation, then the cash-out rule, then the emergency-stop rule;
\* yields [data, cashout, emergency]
RiskCheck(data, tickers) ==
    LET d1 == CalcEquity(data, tickers)
        co == FGe(d1.roi, CASHOUT_THRESHOLD)
        d2 == IF co THEN CashOut(d1, tickers) ELSE d1
        es == FLe(d2.roi, EMERGENCY_STOP_LOSS)
        d3 == IF es THEN EmergencyStop(d2, tickers) ELSE d2
    IN [data |-> d3, cashout |-> co, emergency |-> es]

\* ------------------------------------------------- strategies and intents
\* number of parameters of execute_strategy in the agent's file
Arity(name) == IF name = "A1" THEN 6 ELSE 4

\* the module object installed by load_agent
Instance(name, ver) == [name |-> name, ver |-> ver]

\* How often the clock can run the strategy body in one turn: the call with
\* market_state and agent_state, then the two `except TypeError` fallbacks.
\* A call with keywords the function does not accept fails before the body.
MaxRuns(name) == Arity(name) - 3

Num(v) == [t |-> "num", ok |-> TRUE, v |-> v]
Str(ok, v) == [t |-> "str", ok |-> ok, v |-> v]

Ret(decision, symbol, quantity) ==
    [kind |-> "ret", exc |-> None, decision |-> decision, symbol |-> symbol, quantity |-> quantity]
Raise(exc) ==
    [kind |-> "raise", exc |-> exc, decision |-> "HOLD", symbol |-> None, quantity |-> Num(0)]
NonTuple ==
    [kind |-> "nontuple", exc |-> None, decision |-> "HOLD", symbol |-> None, quantity |-> Num(0)]

Quantities == {1, 3, 10}
Slippages == {1, 5}

\* what one run of a strategy body can produce: an exception, something that
\* is no 3-tuple, or a 3-tuple (well-formed or not)
Outcomes ==
    {Raise("TypeError"), Raise("Exception"), NonTuple, Ret("HOLD", None, Num(0))}
    \cup {Ret(d, s, Num(q)) : d \in {"BUY", "SELL"}, s \in Symbols, q \in Quantities}
    \cup {Ret("SELL", "BTC", Num(PInf)), Ret("BUY", "BTC", Num(PInf)),
          Ret("SELL", "BTC", Num(-1)), Ret("SELL", "BTC", Str(TRUE, 3)),
          Ret("BUY", "BTC", Str(FALSE, 0)), Ret("BUY", "DOGE", Num(1)),
          Ret("SELL", None, Num(1))}

\* the strategies of the concurrent specification: fail, hold, or buy one unit
ClockOutcomes ==
    {Raise("TypeError"), Raise("Exception"), Ret("HOLD", None, Num(0)),
     Ret("BUY", "BTC", Num(1))}

\* float(quantity) of the validation block
ToFloat(q) == IF q.t = "num" \/ q.ok THEN [ok |-> TRUE, v |-> q.v] ELSE [ok |-> FALSE, v |-> 0]

\* lines 712-726: unpack the result and validate it
Validate(out) ==
    LET d0 == IF out.kind = "ret" THEN out.decision ELSE "HOLD"
        sym == IF out.kind = "ret" THEN out.symbol ELSE None
        q0 == IF out.kind = "ret" THEN out.quantity ELSE Num(0)
        conv == ToFloat(q0)
        d1 == IF d0 \in {"BUY", "SELL"} /\ ~conv.ok THEN "HOLD" ELSE d0
        d2 == IF d0 \in {"BUY", "SELL"} /\ sym \notin Symbols THEN "HOLD" ELSE d1
    IN [decision |-> d2, symbol |-> sym, quantity |-> conv.v]

\* One agent's turn of the `for name in agent_names` loop: invoke (the run
\* that ends the retries produced `out`), validate, execute, risk rules.
StepRecord(raised, intent, ex, risk, slip) ==
    [called |-> ~raised,
     decision |-> IF raised THEN "HOLD" ELSE intent.decision,
     symbol |-> intent.symbol,
     quantity |-> intent.quantity,
     slip |-> IF ex.executed THEN slip ELSE 0,
     executed |-> ex.executed,
     post |-> ex.data,
     final |-> risk.data,
     cashout |-> risk.cashout,
     emergency |-> risk.emergency]

\* A turn that leaves the loop body at the strategy's failure, before the
\* equity calculation and the two rules.
AfterExecute_SkipRulesOnFailure(raised, intent, ex, tickers, slip) ==
    StepRecord(raised, intent, ex,
        IF raised THEN [data |-> ex.data, cashout |-> FALSE, emergency |-> FALSE]
        ELSE RiskCheck(ex.data, tickers),
        slip)

AfterExecute(raised, intent, ex, tickers, slip) ==
    StepRecord(raised, intent, ex, RiskCheck(ex.data, tickers), slip)

AfterValidate(data, raised, intent, tickers, slip) ==
    AfterExecute(raised, intent,
        IF raised THEN Rejected(data)
        ELSE ExecuteOrder(data, intent.decision, intent.symbol, intent.quantity, tickers, slip),
        tickers, slip)

AgentStep(data, out, tickers, slip) ==
    AfterValidate(data, out.kind = "raise", Validate(out), tickers, slip)

\* ---------------------------------------------------------------- state
VARIABLES
    running,      \* Arena.running
    latest_tick,  \* Arena.latest_tick, the snapshot slot written by the producer
    agents,       \* Arena.agents: name -> account record
    thr,          \* the threads started with target=_loop and their local variables
    producers,    \* number of live threads started with target=_data_producer
    ctl,          \* position of the control thread (startup / request handler)
    nctl,         \* number of control requests served
    returned,     \* history: name -> has the strategy body ever returned normally
    last,         \* history: the most recent agent turn
    feed,         \* the producer's current sleep and history of its failed fetches
    chart_history,\* Arena.chart_history
    db_queue,     \* Arena._db_queue
    db,           \* the database behind Arena.db (connected = FALSE: db is None)
    db_worker,    \* the thread started with target=_db_write_worker
    wlog,         \* history: the most recent step of the write worker
    call          \* history: the call of a function under examination and its result

feed_vars == <<feed>>
store_vars == <<chart_history, db_queue, db, db_worker, wlog>>
vars == <<running, latest_tick, agents, thr, producers, ctl, nctl, returned, last,
          feed, chart_history, db_queue, db, db_worker, wlog, call>>

Threads == 1..MaxThreads
Order == <<"A1", "A2">>

NoTick == [ts |-> 0, px |-> [s \in Symbols |-> 0]]

\* the snapshots get_market_snapshot can return (prices in micro-dollars);
\* price 0 stands for a symbol missing from the snapshot
PriceMaps ==
    {[s \in Symbols |-> IF s = "BTC" THEN b * Unit ELSE e * Unit] : b \in {40, 80}, e \in {0, 40}}

\* the market of the concurrent specification: one price, one slippage draw
ClockPriceMaps == {[s \in Symbols |-> 40 * Unit]}
ClockSlippages == {1}

NoThread ==
    [pc |-> "none", tick_counter |-> 0, last_ts |-> 0, tickers |-> NoTick,
     names |-> << >>, idx |-> 0, chart_defined |-> FALSE, updates |-> << >>]

NoTurn ==
    [thread |-> 0, name |-> None, tick |-> 0, calls |-> 0, out |-> NonTuple,
     running |-> FALSE, tickers |-> NoTick, pre |-> NewAccount(Instance(None, 0)),
     step |-> AgentStep(NewAccount(Instance(None, 0)), NonTuple, NoTick, 1)]

\* no fetch has failed; the producer sleeps the poll interval
NoFailure == [delay |-> PollDelay, consecutive |-> 0, total |-> 0, failed_at |-> 0]

\* chart_history = deque(maxlen=50000); maxlen 0 stands for a plain list
EmptyChart == [maxlen |-> ChartMax, points |-> << >>]
\* a chart point without its 'agents' field (the equities at that moment)
ChartPoint(ts, price) == [timestamp |-> ts, price |-> price]
ChartAppend(h, point) ==
    LET q == Append(h.points, point)
    IN [h EXCEPT !.points = IF h.maxlen > 0 /\ Len(q) > h.maxlen THEN Tail(q) ELSE q]

\* an account without its module reference: {k: v for k, v in d.items() if k != 'instance'}
Stored(data) == [f \in DOMAIN data \ {"instance"} |-> data[f]]
States(ags) == [n \in DOMAIN ags |-> Stored(ags[n])]

\* the collections agents and chart_history of the database
NoAgents == [n \in {} |-> 0]
NoDatabase == [connected |-> FALSE, agents |-> NoAgents, chart_history |-> << >>]
EmptyDatabase == [connected |-> TRUE, agents |-> NoAgents, chart_history |-> << >>]

\* the $set upserts of the documents of S, by name
Upsert(store, docs, S) ==
    [store EXCEPT !.agents =
        [n \in DOMAIN store.agents \cup S |-> IF n \in S THEN docs[n] ELSE store.agents[n]]]

\* _save_agent_state for every account load_agent has just created
SaveNew(store, old, new) ==
    IF store.connected THEN Upsert(store, States(new), DOMAIN new \ DOMAIN old) ELSE store

\* self._db_queue.put(item).  Without a database the worker drops every
\* record as soon as it gets it (`if self.db is None: continue`); those
\* records are not kept in the model's queue.
Put(queue, item) == IF db.connected THEN Append(queue, item) ELSE queue

\* no call is under examination
NoCall == [fn |-> "none", n |-> 0]

NoWrite == [op |-> "none", ok |-> TRUE, fails |-> 0, failed_at |-> 0]

Alive(t) == thr[t].pc \in {"top", "agents", "lookup", "publish"}
Loaded == DOMAIN agents

\* list(self.agents.keys())
KeyList(S) == SelectSeq(Order, LAMBDA n : n \in S)

InitArena ==
    /\ running = FALSE
    /\ latest_tick = NoTick
    /\ agents = [n \in {} |-> 0]
    /\ thr = [t \in Threads |-> NoThread]
    /\ producers = 0
    /\ ctl = "boot"
    /\ nctl = 0
    /\ returned = [n \in AgentNames |-> FALSE]
    /\ last = NoTurn
    /\ feed = NoFailure
    /\ chart_history = EmptyChart
    /\ db_queue = << >>
    /\ db_worker = "running"
    /\ wlog = NoWrite

\* Arena(socketio, None): no database is configured
Init ==
    /\ InitArena
    /\ db = NoDatabase
    /\ call = NoCall

\* Arena(socketio, db) on a database that holds no document
InitStore ==
    /\ InitArena
    /\ db = EmptyDatabase
    /\ call = NoCall

\* --------------------------------------------------------- control thread
\* start_loop: no-op when running; else set running and start the threads
FreeSlot == CHOOSE t \in Threads : ~Alive(t) /\ \A u \in Threads : ~Alive(u) => t <= u
CanStart == running \/ \E t \in Threads : ~Alive(t)

StartLoop ==
    IF running
    THEN UNCHANGED <<running, thr, producers>>
    ELSE /\ running' = TRUE
         /\ producers' = producers + 1
         /\ thr' = [thr EXCEPT ![FreeSlot] = [NoThread EXCEPT !.pc = "top"]]

\* A reload that builds the account anew instead of keeping it.
LoadAgent_Fresh(ags, name) ==
    [n \in DOMAIN ags \cup {name} |->
        IF n = name
        THEN NewAccount(Instance(name, IF name \in DOMAIN ags THEN ags[name].instance.ver + 1 ELSE 1))
        ELSE ags[n]]

\* load_agent(name) / load_agent(name, reload_module=True) on the accounts
LoadAgent(ags, name) ==
    IF name \in DOMAIN ags
    THEN [ags EXCEPT ![name].instance = Instance(name, @.ver + 1)]
    ELSE [n \in DOMAIN ags \cup {name} |->
            IF n = name THEN NewAccount(Instance(name, 1)) ELSE ags[n]]

\* what load_agent can find at agents/<name>.py: no file, a module that
\* raises while it is executed, a module without execute_strategy, a strategy
Files == {"missing", "raises", "no_strategy", "ok"}

\* A load that installs the module reference before the module is executed
\* and examined: a reload that fails leaves the failed module in the account.
LoadAgentCall_InstallFirst(ags, store, name, file, save_ok) ==
    IF file = "missing"
    THEN [ret |-> FALSE, agents |-> ags, db |-> store]
    ELSE IF name \in DOMAIN ags
    THEN [ret |-> file = "ok", agents |-> LoadAgent(ags, name), db |-> store]
    ELSE IF file # "ok"
    THEN [ret |-> FALSE, agents |-> ags, db |-> store]
    ELSE LET created == LoadAgent(ags, name) IN
         IF store.connected /\ ~save_ok
         THEN [ret |-> FALSE, agents |-> created, db |-> store]
         ELSE [ret |-> TRUE, agents |-> created, db |-> SaveNew(store, ags, created)]

\* load_agent(name, reload_module=True) as a whole: the value it returns and
\* the accounts and the database it leaves.  save_ok tells whether the
\* update_one of _save_agent_state succeeds; it is called for a new account
\* when a database is connected, and its exception is caught by the handler
\* around the whole body.
LoadAgentCall(ags, store, name, file, save_ok) ==
    IF file # "ok"
    THEN [ret |-> FALSE, agents |-> ags, db |-> store]
    ELSE IF name \in DOMAIN ags
    THEN [ret |-> TRUE, agents |-> LoadAgent(ags, name), db |-> store]
    ELSE LET created == LoadAgent(ags, name) IN
         IF store.connected /\ ~save_ok
         THEN [ret |-> FALSE, agents |-> created, db |-> store]
         ELSE [ret |-> TRUE, agents |-> created, db |-> SaveNew(store, ags, created)]

\* one call of load_agent from the control thread
LoadCall(n, file, save_ok) ==
    /\ call.n < MaxLoads
    /\ ~save_ok => (file = "ok" /\ n \notin Loaded /\ db.connected)
    /\ LET r == LoadAgentCall(agents, db, n, file, save_ok) IN
         /\ agents' = r.agents
         /\ db' = r.db
         /\ call' = [fn |-> "load_agent", n |-> call.n + 1, name |-> n, file |-> file,
                     was_loaded |-> n \in Loaded, ret |-> r.ret]
    /\ UNCHANGED <<running, latest_tick, thr, producers, ctl, nctl, returned, last,
                   feed, chart_history, db_queue, db_worker, wlog>>

RECURSIVE LoadAll(_, _)
LoadAll(ags, S) ==
    IF S = {} THEN ags
    ELSE LET n == CHOOSE x \in S : TRUE IN LoadAll(LoadAgent(ags, n), S \ {n})

\* app.delayed_startup: load every agent file, start the arena
Startup(files) ==
    /\ ctl = "boot"
    /\ agents' = LoadAll(agents, files)
    /\ db' = SaveNew(db, agents, agents')
    /\ StartLoop
    /\ ctl' = "idle"
    /\ UNCHANGED <<latest_tick, nctl, returned, last, feed, chart_history, db_queue, db_worker, wlog, call>>

Request == ctl = "idle" /\ nctl < MaxCtl

\* POST /start_arena
StartArena ==
    /\ ctl = "idle" /\ ~running /\ CanStart
    /\ StartLoop
    /\ UNCHANGED <<latest_tick, agents, ctl, nctl, returned, last, feed_vars, store_vars, call>>

\* POST /stop_arena
StopArena ==
    /\ Request /\ running
    /\ running' = FALSE
    /\ nctl' = nctl + 1
    /\ UNCHANGED <<latest_tick, agents, thr, producers, ctl, returned, last, feed_vars, store_vars, call>>

\* POST /stop_agent
StopAgent(n) ==
    /\ Request /\ n \in Loaded
    /\ agents' = [x \in Loaded \ {n} |-> agents[x]]
    /\ returned' = [returned EXCEPT ![n] = FALSE]
    /\ nctl' = nctl + 1
    /\ UNCHANGED <<running, latest_tick, thr, producers, ctl, last, feed_vars, store_vars, call>>

\* POST /deploy_agent
DeployAgent(n) ==
    /\ Request
    /\ agents' = LoadAgent(agents, n)
    /\ db' = SaveNew(db, agents, agents')
    /\ nctl' = nctl + 1
    /\ UNCHANGED <<running, latest_tick, thr, producers, ctl, returned, last,
                   feed, chart_history, db_queue, db_worker, wlog, call>>

\* reset / soft_reset up to the time.sleep(1)
ResetBegin(kind) ==
    /\ Request
    /\ running' = FALSE
    /\ ctl' = kind
    /\ nctl' = nctl + 1
    /\ UNCHANGED <<latest_tick, agents, thr, producers, returned, last, feed_vars, store_vars, call>>

\* the first chart point of reset and soft_reset; the wall clock is read as
\* the timestamp of the newest snapshot
InitialPoint ==
    ChartPoint(latest_tick.ts, 0)

\* reset after the sleep
ResetFinish ==
    /\ ctl = "reset" /\ CanStart
    /\ agents' = LoadAll([n \in {} |-> 0], AgentNames)
    /\ returned' = [n \in AgentNames |-> FALSE]
    /\ LET initial == InitialPoint IN
         /\ chart_history' = [maxlen |-> 0, points |-> <<initial>>]
         /\ db' = IF db.connected
                  THEN SaveNew([db EXCEPT !.agents = NoAgents, !.chart_history = <<initial>>],
                               NoAgents, agents')
                  ELSE db
    /\ StartLoop
    /\ ctl' = "idle"
    /\ UNCHANGED <<latest_tick, nctl, last, feed, db_queue, db_worker, wlog, call>>

\* the dict.update of soft_reset
SoftResetAccount(data) ==
    [data EXCEPT !.equity = STARTING_EQUITY, !.cash = STARTING_EQUITY, !.total_fees = 0,
                 !.portfolio = ZeroPortfolio, !.roi = 0, !.cashed_out = 0,
                 !.entry_prices = NoEntries, !.custom_state = 0, !.trade_history = << >>]

\* soft_reset after the sleep
SoftResetFinish ==
    /\ ctl = "soft_reset" /\ CanStart
    /\ agents' = [n \in Loaded |-> SoftResetAccount(agents[n])]
    /\ LET initial == InitialPoint IN
         /\ chart_history' = [chart_history EXCEPT !.points = <<initial>>]
         /\ db' = IF db.connected
                  THEN Upsert([db EXCEPT !.chart_history = <<initial>>], States(agents'), Loaded)
                  ELSE db
    /\ StartLoop
    /\ ctl' = "idle"
    /\ UNCHANGED <<latest_tick, nctl, returned, last, feed, db_queue, db_worker, wlog, call>>

\* ------------------------------------------------------- producer thread
\* _data_producer: one successful fetch publishes a new snapshot
ProducerFetch(maps) ==
    /\ producers > 0 /\ running
    /\ latest_tick.ts < MaxTs
    /\ \E px \in maps : latest_tick' = [ts |-> latest_tick.ts + 1, px |-> px]
    /\ feed' = [feed EXCEPT !.delay = PollDelay, !.consecutive = 0]
    /\ UNCHANGED <<running, agents, thr, producers, ctl, nctl, returned, last, store_vars, call>>

\* A producer without the try/except: an exception of the fetch ends the thread.
ProducersAfterFailure_Unhandled(kind) ==
    IF kind = "exception" THEN producers - 1 ELSE producers

\* the `except Exception` of the producer: the loop goes on
ProducersAfterFailure(kind) == producers

\* _data_producer: the fetch raises ("exception"), or the provider call
\* inside get_market_snapshot fails and the snapshot comes back empty ("empty")
ProducerFail(kind) ==
    /\ producers > 0 /\ running
    /\ feed.total < MaxFail
    /\ feed' = [delay |-> IF kind = "exception" THEN ErrorDelay ELSE PollDelay,
                consecutive |-> feed.consecutive + 1,
                total |-> feed.total + 1,
                failed_at |-> latest_tick.ts]
    /\ producers' = ProducersAfterFailure(kind)
    /\ UNCHANGED <<running, latest_tick, agents, thr, ctl, nctl, returned, last, store_vars, call>>

ProducerExit ==
    /\ producers > 0 /\ ~running
    /\ producers' = producers - 1
    /\ UNCHANGED <<running, latest_tick, agents, thr, ctl, nctl, returned, last, feed_vars, store_vars, call>>

\* ---------------------------------------------------------- clock thread
\* `while self.running` is false: the thread ends
LoopExit(t) ==
    /\ thr[t].pc = "top" /\ ~running
    /\ thr' = [thr EXCEPT ![t] = [NoThread EXCEPT !.pc = "dead"]]
    /\ UNCHANGED <<running, latest_tick, agents, producers, ctl, nctl, returned, last, feed_vars, store_vars, call>>

\* top of an iteration up to `agent_names = list(self.agents.keys())`
LoopTop(t) ==
    /\ thr[t].pc = "top" /\ running
    /\ latest_tick # NoTick
    /\ latest_tick.ts # thr[t].last_ts
    /\ LET names == KeyList(Loaded)
           benchmark_price == PriceOf(latest_tick, "BTC")
       IN /\ thr' = [thr EXCEPT ![t] =
                    [@ EXCEPT !.pc = IF names = << >> THEN "publish" ELSE "agents",
                              !.last_ts = latest_tick.ts,
                              !.tickers = latest_tick,
                              !.names = names,
                              !.idx = 1,
                              !.chart_defined = @ \/ (latest_tick.ts > 0 /\ benchmark_price > 0),
                              !.updates = << >>]]
          /\ IF latest_tick.ts > 0 /\ benchmark_price > 0
             THEN LET chart_payload == ChartPoint(latest_tick.ts, benchmark_price)
                  IN /\ chart_history' = ChartAppend(chart_history, chart_payload)
                     /\ db_queue' = Put(db_queue, [op |-> "chart", data |-> chart_payload])
             ELSE UNCHANGED <<chart_history, db_queue>>
    /\ UNCHANGED <<running, latest_tick, agents, producers, ctl, nctl, returned, last,
                   feed, db, db_worker, wlog, call>>

\* An agent loop that polls `running` before each agent and abandons the
\* tick when it is false.
NextAgent_StopAtOnce(t, row) ==
    IF running
    THEN [thr EXCEPT ![t] =
            [@ EXCEPT !.idx = @ + 1,
                      !.pc = IF thr[t].idx = Len(thr[t].names) THEN "publish" ELSE "agents",
                      !.updates = IF row = << >> THEN @ ELSE @ \o row]]
    ELSE [thr EXCEPT ![t] =
            [@ EXCEPT !.pc = "top", !.tickers = NoTick, !.names = << >>,
                      !.idx = 0, !.updates = << >>]]

\* the end of one iteration of `for name in agent_names`
NextAgent(t, row) ==
    [thr EXCEPT ![t] =
        [@ EXCEPT !.idx = @ + 1,
                  !.pc = IF thr[t].idx = Len(thr[t].names) THEN "publish" ELSE "agents",
                  !.updates = IF row = << >> THEN @ ELSE @ \o row]]

\* An agent loop without the per-agent try/except: a strategy failure
\* reaches the handler around the whole iteration, which abandons the tick.
AfterTurn_Propagate(t, n, step) ==
    IF step.called
    THEN NextAgent(t, <<[name |-> n, last_decision |-> step.decision]>>)
    ELSE [thr EXCEPT ![t] =
            [@ EXCEPT !.pc = "top", !.tickers = NoTick, !.names = << >>,
                      !.idx = 0, !.updates = << >>]]

\* The per-agent try/except: a failure of the strategy is caught inside the
\* iteration, the risk rules run and the leaderboard row is appended with
\* the HOLD the iteration started from, and the loop goes on.
AfterTurn(t, n, step) ==
    NextAgent(t, <<[name |-> n, last_decision |-> step.decision]>>)

\* `if name not in self.agents: continue`
AgentSkip(t) ==
    /\ thr[t].pc = "agents"
    /\ thr[t].names[thr[t].idx] \notin Loaded
    /\ thr' = NextAgent(t, << >>)
    /\ UNCHANGED <<running, latest_tick, agents, producers, ctl, nctl, returned, last, feed_vars, store_vars, call>>

\* An agent loop that reads self.latest_tick again for every agent.
TurnTickers_Latest(t) == latest_tick

\* the snapshot an agent is evaluated and executed against: the local
\* `tickers` the thread bound at the top of the iteration
TurnTickers(t) == thr[t].tickers

\* the body of one iteration of the agent loop from `data = self.agents[name]`
\* on; `runs` bodies were run, the last gave `out`
Turn(t, outs, slips) ==
    LET n == thr[t].names[thr[t].idx] IN
         /\ n \in Loaded
         /\ \E out \in outs, slip \in slips :
              \E runs \in 1..MaxRuns(n) :
                   /\ (out = Raise("TypeError")) => runs = MaxRuns(n)
                   /\ last' = [thread |-> t, name |-> n, tick |-> thr[t].tick_counter,
                               calls |-> runs, out |-> out,
                               running |-> running, tickers |-> TurnTickers(t), pre |-> agents[n],
                               step |-> AgentStep(agents[n], out, TurnTickers(t), slip)]
                   /\ agents' = [agents EXCEPT ![n] = last'.step.final]
                   /\ returned' = [returned EXCEPT ![n] = @ \/ out.kind # "raise"]
                   /\ thr' = AfterTurn(t, n, last'.step)

\* one iteration of the agent loop, the membership test and the lookup of
\* the account taken as one step
AgentTurn(t, outs, slips) ==
    /\ thr[t].pc = "agents"
    /\ Turn(t, outs, slips)
    /\ UNCHANGED <<running, latest_tick, producers, ctl, nctl, feed_vars, store_vars, call>>

\* `if name not in self.agents` found the name: the thread is between the
\* test and `data = self.agents[name]`, where the control thread can run
AgentCheck(t) ==
    /\ thr[t].pc = "agents"
    /\ thr[t].names[thr[t].idx] \in Loaded
    /\ thr' = [thr EXCEPT ![t].pc = "lookup"]
    /\ UNCHANGED <<running, latest_tick, agents, producers, ctl, nctl, returned, last, feed_vars, store_vars, call>>

\* `except Exception` around the whole iteration of the clock: the rest of
\* the tick is dropped, and the loop goes on after time.sleep(5)
LoopError(t) ==
    [thr EXCEPT ![t] =
        [@ EXCEPT !.pc = "top", !.tickers = NoTick, !.names = << >>,
                  !.idx = 0, !.updates = << >>]]

\* `data = self.agents[name]` and the rest of the iteration; the lookup
\* raises KeyError when the agent was unloaded since the membership test
AgentLookup(t, outs, slips) ==
    /\ thr[t].pc = "lookup"
    /\ IF thr[t].names[thr[t].idx] \in Loaded
       THEN Turn(t, outs, slips)
       ELSE /\ thr' = LoopError(t)
            /\ UNCHANGED <<agents, returned, last>>
    /\ UNCHANGED <<running, latest_tick, producers, ctl, nctl, feed_vars, store_vars, call>>

\* after the loop: tick_bundle, DB save, tick_counter += 1; the emit raises
\* NameError when this thread never built a chart_payload, and the handler
\* around the iteration then skips the DB save and the increment
Publish(t) ==
    /\ thr[t].pc = "publish"
    /\ thr' = [thr EXCEPT ![t] =
                 [@ EXCEPT !.pc = "top",
                           !.tick_counter = IF thr[t].chart_defined THEN @ + 1 ELSE @,
                           !.tickers = NoTick, !.names = << >>, !.idx = 0,
                           !.updates = << >>]]
    /\ db_queue' = IF thr[t].chart_defined /\ running
                   THEN Put(db_queue, [op |-> "agents_bulk", data |-> States(agents)])
                   ELSE db_queue
    /\ UNCHANGED <<running, latest_tick, agents, producers, ctl, nctl, returned, last,
                   feed, chart_history, db, db_worker, wlog, call>>

\* ----------------------------------------------------------- write worker
\* insert_one / bulk_write on the database
DbApply(store, item) ==
    IF item.op = "chart"
    THEN [store EXCEPT !.chart_history = Append(@, item.data)]
    ELSE Upsert(store, item.data, DOMAIN item.data)

\* what a failed write can leave behind: nothing of a chart point; of an
\* unordered bulk write, the upserts of any proper subset of the accounts
DbFailed(store, item) ==
    IF item.op = "chart"
    THEN {store}
    ELSE {Upsert(store, item.data, S) : S \in (SUBSET DOMAIN item.data) \ {DOMAIN item.data}}
             \cup {store}

\* A worker without the try/except: an exception of the store ends the thread.
WorkerAfterWrite_Unhandled(ok) == IF ok THEN "running" ELSE "dead"

\* `except Exception: pass`: the worker goes back to the queue
WorkerAfterWrite(ok) == "running"

\* The record as the worker encodes it.  The 'agents_bulk' payload is a
\* shallow copy: cash, equity and the other numbers are the values of the
\* tick that enqueued the record, while portfolio, entry_prices and
\* trade_history are the dict and list objects of the live account, which
\* the clock changes in place (the clock rebinds them only in cash-out,
\* emergency stop and the cut of the history at 100 trades).
AtWrite(item) ==
    IF item.op = "chart"
    THEN item
    ELSE [item EXCEPT !.data =
            [n \in DOMAIN item.data |->
                IF n \in Loaded
                THEN [item.data[n] EXCEPT !.portfolio = agents[n].portfolio,
                                          !.entry_prices = agents[n].entry_prices,
                                          !.trade_history = agents[n].trade_history]
                ELSE item.data[n]]]

\* _db_write_worker: one iteration that got a record from the queue
DbWorkerStep ==
    /\ db_worker = "running"
    /\ db_queue # << >>
    /\ LET item == AtWrite(Head(db_queue)) IN
         \E ok \in BOOLEAN :
              /\ ~ok => (db.connected /\ wlog.fails < MaxDbFail)
              /\ db' \in IF ~db.connected THEN {db}
                         ELSE IF ok THEN {DbApply(db, item)}
                         ELSE DbFailed(db, item)
              /\ db_queue' = Tail(db_queue)
              /\ db_worker' = WorkerAfterWrite(ok)
              /\ wlog' = [op |-> item.op, ok |-> ok,
                          fails |-> IF ok THEN wlog.fails ELSE wlog.fails + 1,
                          failed_at |-> IF ok THEN wlog.failed_at ELSE latest_tick.ts]
    /\ UNCHANGED <<running, latest_tick, agents, thr, producers, ctl, nctl, returned, last,
                   feed, chart_history, call>>

Next ==
    \/ Startup(AgentNames)
    \/ StartArena
    \/ StopArena
    \/ \E n \in AgentNames : StopAgent(n)
    \/ \E n \in AgentNames : DeployAgent(n)
    \/ ResetBegin("reset")
    \/ ResetBegin("soft_reset")
    \/ ResetFinish
    \/ SoftResetFinish
    \/ ProducerFetch(ClockPriceMaps)
    \/ ProducerExit
    \/ \E t \in Threads : LoopExit(t)
    \/ \E t \in Threads : LoopTop(t)
    \/ \E t \in Threads : AgentSkip(t)
    \/ \E t \in Threads : AgentTurn(t, ClockOutcomes, ClockSlippages)
    \/ \E t \in Threads : Publish(t)

Spec == Init /\ [][Next]_vars

\* The ledger under every intent: one agent file, one clock thread, no
\* control requests after startup.
NextLedger ==
    \/ Startup({"A1"})
    \/ ProducerFetch(PriceMaps)
    \/ \E t \in Threads : LoopTop(t)
    \/ \E t \in Threads : AgentTurn(t, Outcomes, Slippages)
    \/ \E t \in Threads : Publish(t)

SpecLedger == Init /\ [][NextLedger]_vars

\* The feed under failures: no database, one agent file, one clock thread;
\* fetches may fail.
NextFeed ==
    \/ Startup({"A1"})
    \/ ProducerFetch(ClockPriceMaps)
    \/ \E kind \in {"exception", "empty"} : ProducerFail(kind)
    \/ \E t \in Threads : LoopTop(t)
    \/ \E t \in Threads : AgentTurn(t, ClockOutcomes, ClockSlippages)
    \/ \E t \in Threads : Publish(t)

SpecFeed == Init /\ [][NextFeed]_vars

\* The store under failures: a database is connected, one agent file, one
\* clock thread; writes may fail.
NextStore ==
    \/ Startup({"A1"})
    \/ ProducerFetch(ClockPriceMaps)
    \/ \E t \in Threads : LoopTop(t)
    \/ \E t \in Threads : AgentTurn(t, ClockOutcomes, ClockSlippages)
    \/ \E t \in Threads : Publish(t)
    \/ DbWorkerStep

SpecStore == InitStore /\ [][NextStore]_vars

\* Stopping with a database connected: one agent file, the clock and the
\* producer until they end; the write worker is not scheduled.
NextStop ==
    \/ Startup({"A1"})
    \/ StopArena
    \/ ProducerFetch(ClockPriceMaps)
    \/ ProducerExit
    \/ \E t \in Threads : LoopExit(t)
    \/ \E t \in Threads : LoopTop(t)
    \/ \E t \in Threads : AgentTurn(t, ClockOutcomes, ClockSlippages)
    \/ \E t \in Threads : Publish(t)

SpecStop == InitStore /\ [][NextStop]_vars

\* Loading: a database is connected, load_agent is called for either name
\* with every kind of file; the arena is not started.
NextLoad ==
    \E n \in AgentNames, file \in Files, save_ok \in BOOLEAN : LoadCall(n, file, save_ok)

SpecLoad == InitStore /\ [][NextLoad]_vars

\* Unloading and loading during a tick: a database is connected, two agent
\* files, one clock thread; the membership test and the lookup of the
\* account are separate steps of the clock.
NextRace ==
    \/ Startup(AgentNames)
    \/ \E n \in AgentNames : StopAgent(n)
    \/ \E n \in AgentNames : DeployAgent(n)
    \/ ProducerFetch(ClockPriceMaps)
    \/ \E t \in Threads : LoopTop(t)
    \/ \E t \in Threads : AgentSkip(t)
    \/ \E t \in Threads : AgentCheck(t)
    \/ \E t \in Threads : AgentLookup(t, ClockOutcomes, ClockSlippages)
    \/ \E t \in Threads : Publish(t)

SpecRace == InitStore /\ [][NextRace]_vars

\* Restart on a database that holds account documents.  The documents are
\* accounts the arena has saved: each is the account a short history of
\* turns leaves, <<intent, BTC price>> per turn: a fresh account, an open
\* long, an open short, and a long that was cashed out at a profit.
PersistedPaths ==
    {<< >>,
     <<<<Ret("BUY", "BTC", Num(1)), 40>>>>,
     <<<<Ret("SELL", "BTC", Num(1)), 40>>>>,
     <<<<Ret("BUY", "BTC", Num(1)), 40>>, <<Ret("HOLD", None, Num(0)), 80>>>>}

RECURSIVE Replay(_, _, _)
Replay(data, path, ts) ==
    IF path = << >> THEN data
    ELSE LET snapshot == [ts |-> ts,
                          px |-> [s \in Symbols |->
                                    IF s = "BTC" THEN Head(path)[2] * Unit ELSE 40 * Unit]]
         IN Replay(AgentStep(data, Head(path)[1], snapshot, 1).final, Tail(path), ts + 1)

\* the document _save_agent_state / the 'agents_bulk' write stored for n
PersistedDoc(n, path) == Stored(Replay(NewAccount(Instance(n, 1)), path, 1))

\* db.agents.delete_one({'name': name})
DeleteDoc(store, name) ==
    [store EXCEPT !.agents = [n \in DOMAIN store.agents \ {name} |-> store.agents[n]]]

\* the assignments of _restore_state from the document: every field of the
\* account except roi and cashed_out (win_rate, returns_history and sharpe
\* are not part of the model's account)
RestoreFields(data, doc) ==
    [data EXCEPT !.equity = doc.equity, !.cash = doc.cash, !.total_fees = doc.total_fees,
                 !.portfolio = doc.portfolio, !.entry_prices = doc.entry_prices,
                 !.custom_state = doc.custom_state, !.trade_history = doc.trade_history,
                 !.trades_count = doc.trades_count, !.wins = doc.wins]

\* One iteration of `for doc in saved`: load_agent(name) is called without
\* restore=True, so it saves the account it has just created over the
\* document; then the fields are copied from the document the cursor
\* returned.  A load that returns False deletes the document.
RestoreAgent(ags, store, doc, name, file, save_ok) ==
    LET r == LoadAgentCall(ags, store, name, file, save_ok) IN
      IF r.ret
      THEN [agents |-> [r.agents EXCEPT ![name] = RestoreFields(@, doc)], db |-> r.db]
      ELSE [agents |-> r.agents, db |-> DeleteDoc(r.db, name)]

\* _restore_state: the documents are taken in the order of the collection
RECURSIVE RestoreAll(_, _, _, _, _)
RestoreAll(ags, store, names, files, saves) ==
    IF names = << >> THEN [agents |-> ags, db |-> store]
    ELSE LET n == Head(names)
             r == RestoreAgent(ags, store, store.agents[n], n, files[n], saves[n])
         IN RestoreAll(r.agents, r.db, Tail(names), files, saves)

\* the database a restarted server finds
InitRestore ==
    /\ InitArena
    /\ \E S \in SUBSET AgentNames :
          \E paths \in [S -> PersistedPaths] :
             db = [connected |-> TRUE, chart_history |-> << >>,
                   agents |-> [n \in S |-> PersistedDoc(n, paths[n])]]
    /\ call = [fn |-> "_restore_state", n |-> 0]

\* Arena.__init__ with a database: _restore_state, then
\* _restore_chart_history, which finds no chart point here
RestoreCall ==
    /\ call.fn = "_restore_state" /\ call.n = 0
    /\ \E files \in [DOMAIN db.agents -> Files], saves \in [DOMAIN db.agents -> BOOLEAN] :
          /\ \A n \in DOMAIN db.agents : ~saves[n] => files[n] = "ok"
          /\ \E r \in {RestoreAll(agents, db, KeyList(DOMAIN db.agents), files, saves)} :
                /\ agents' = r.agents
                /\ db' = r.db
          /\ call' = [fn |-> "_restore_state", n |-> 1, saved |-> db.agents,
                      files |-> files, saves |-> saves]
    /\ UNCHANGED <<running, latest_tick, thr, producers, ctl, nctl, returned, last,
                   feed, chart_history, db_queue, db_worker, wlog>>

NextRestore == RestoreCall

SpecRestore == InitRestore /\ [][NextRestore]_vars

\* The fee of two orders at one fill price.  The significands are the four
\* smallest and the four largest of the format; the quantities lie next to
\* 1/8, 1/4 and 1, the prices between 32 and 64.
Significands ==
    (Pow2(MantBits - 1)..(Pow2(MantBits - 1) + 3)) \cup ((Pow2(MantBits) - 4)..(Pow2(MantBits) - 1))
FeeQuantities == {MiniFloat(m, e) : m \in Significands, e \in {-MantBits - 2, -MantBits - 1, -MantBits + 1}}
FeePrices == {MiniFloat(m, 6 - MantBits) : m \in Significands}

InitFee ==
    /\ InitArena
    /\ db = NoDatabase
    /\ call \in {[fn |-> "fee", n |-> 0, decision |-> d, price |-> p, q1 |-> a, q2 |-> b,
                   fee1 |-> a, fee2 |-> b] :
                      d \in {"BUY", "SELL"}, p \in FeePrices, a \in FeeQuantities, b \in FeeQuantities}

\* the fee lines of _execute_order for the two quantities
FeeCall ==
    /\ call.fn = "fee" /\ call.n = 0
    /\ call' = [call EXCEPT !.n = 1,
                            !.fee1 = OrderFee(call.q1, call.price),
                            !.fee2 = OrderFee(call.q2, call.price)]
    /\ UNCHANGED <<running, latest_tick, agents, thr, producers, ctl, nctl, returned, last,
                   feed, chart_history, db_queue, db, db_worker, wlog>>

NextFee == FeeCall

SpecFee == InitFee /\ [][NextFee]_vars

\* One order on an account with cash 100 that holds one symbol.  Besides
\* whole quantities the strategy trades quantities whose notional at price
\* 40 is k/16 of the distance between neighbouring floats at 100 (any
\* positive float passes the validation of the intent).
FineQuantities == {RoundTo(k, 16 * 40, 7 - MantBits) : k \in {3, 5, 8, 11}}
FillQuantities == FineQuantities \cup {FloatOf(1, 1), FloatOf(3, 1)}
FillHoldings ==
    {FloatZero, FloatOf(1, 1), FloatNeg(FloatOf(1, 1))}
    \cup FineQuantities \cup {FloatNeg(q) : q \in FineQuantities}
FillPrices == {FloatOf(40, 1), FloatOf(80, 1)}
\* the ends of np.random.uniform(0.0001, 0.0005)
FillSlippages == {FloatOf(1, SlipDenominator), FloatOf(5, SlipDenominator)}

InitFill ==
    /\ InitArena
    /\ db = NoDatabase
    /\ call \in {[fn |-> "_execute_order", n |-> 0,
                  data |-> [cash |-> FloatOf(100, 1), qty |-> h],
                  decision |-> d, quantity |-> q, snapshot |-> p, slippage |-> sl,
                  ret |-> FloatRejected([cash |-> FloatOf(100, 1), qty |-> h], p)] :
                      h \in FillHoldings, d \in {"BUY", "SELL"}, q \in FillQuantities,
                      p \in FillPrices, sl \in FillSlippages}

FillCall ==
    /\ call.fn = "_execute_order" /\ call.n = 0
    /\ call' = [call EXCEPT !.n = 1,
                            !.ret = FloatExecuteOrder(call.data, call.decision, call.quantity,
                                                      call.snapshot, call.slippage)]
    /\ UNCHANGED <<running, latest_tick, agents, thr, producers, ctl, nctl, returned, last,
                   feed, chart_history, db_queue, db, db_worker, wlog>>

NextFill == FillCall

SpecFill == InitFill /\ [][NextFill]_vars

\* The ticks after an emergency stop, in floats.  The stop left the account
\* without a position and with cash = equity <= 98; the balances are 60, 98
\* and the largest float below 64, where the distance between neighbouring
\* floats doubles.  The strategy holds, or trades one unit or a quantity
\* whose notional at price 40 is k/16 of the distance between neighbouring
\* floats at 100.
StoppedBalances ==
    {FloatOf(60, 1), FloatOf(98, 1), MiniFloat(Pow2(MantBits) - 1, 6 - MantBits)}
StopQuantities == {RoundTo(k, 16 * 40, 7 - MantBits) : k \in {5, 11, 18}} \cup {FloatOf(1, 1)}
StopIntents ==
    {[decision |-> "HOLD", quantity |-> FloatZero]}
    \cup {[decision |-> d, quantity |-> q] : d \in {"BUY", "SELL"}, q \in StopQuantities}

InitStopped ==
    /\ InitArena
    /\ db = NoDatabase
    /\ call \in {[fn |-> "tick", n |-> 0, data |-> [cash |-> c, qty |-> FloatZero]] :
                     c \in StoppedBalances}

\* one turn of the stopped agent: a failing strategy or one without usable
\* intent is a HOLD; then execution and the risk rules
StoppedTick ==
    /\ call.fn = "tick" /\ call.n < MaxStopTicks
    /\ \E intent \in StopIntents, sl \in FillSlippages, p \in {FloatOf(40, 1)} :
         \E ex \in {FloatExecuteOrder(call.data, intent.decision, intent.quantity, p, sl)} :
            \E risk \in {FloatRiskCheck(ex.data, p)} :
               call' = [fn |-> "tick", n |-> call.n + 1, data |-> risk.data, pre |-> call.data,
                        decision |-> intent.decision, quantity |-> intent.quantity,
                        snapshot |-> p, slippage |-> sl, ret |-> FloatTurn(ex, risk)]
    /\ UNCHANGED <<running, latest_tick, agents, thr, producers, ctl, nctl, returned, last,
                   feed, chart_history, db_queue, db, db_worker, wlog>>

NextStopped == StoppedTick

SpecStopped == InitStopped /\ [][NextStopped]_vars

\* ---------------------------------------------------- Brain._validate_code
\* A strategy source as ast.parse sees it.  A dotted name is the sequence
\* of its components (os.path is <<"os", "path">>).  An import statement
\* carries one alias: `import a.b` has alias name a.b; `from a.b import c`
\* has module a.b and alias name c.  A function definition carries its
\* name, whether it is a statement of the module body (tree.body) or is
\* nested in a class or function, and the number of its parameters
\* (node.args.args).
ModuleNames == {<<"os">>, <<"os", "path">>, <<"sys">>, <<"numpy">>}
ImportedNames == {<<"system">>, <<"os">>, <<"array">>}
ImportStatements ==
    {[kind |-> "import", module |-> m, name |-> m] : m \in ModuleNames}
    \cup {[kind |-> "from", module |-> m, name |-> a] :
              m \in {<<"os">>, <<"numpy">>}, a \in ImportedNames}
FunctionDefs ==
    [name : {"execute_strategy", "helper"}, top : BOOLEAN, args : 3..7]
SyntaxErrorSource == [parses |-> FALSE, imports |-> {}, defs |-> {}]
Sources ==
    {SyntaxErrorSource}
    \cup {[parses |-> TRUE, imports |-> i, defs |-> d] :
              i \in {x \in SUBSET ImportStatements : Cardinality(x) <= MaxImports},
              d \in {{}} \cup {{f} : f \in FunctionDefs}}

Blacklist == {<<"os">>, <<"sys">>, <<"subprocess">>, <<"requests">>}

ValidateCode(code) ==
    IF ~code.parses THEN FALSE
    ELSE IF \E node \in code.imports : node.name \in Blacklist THEN FALSE
    ELSE LET strategies == {node \in code.defs : node.top /\ node.name = "execute_strategy"} IN
         IF \E node \in strategies : node.args < 4 \/ node.args > 6 THEN FALSE
         ELSE strategies # {}

InitBrain ==
    /\ InitArena
    /\ db = NoDatabase
    /\ call \in {[fn |-> "_validate_code", n |-> 0, code |-> c, ret |-> FALSE] : c \in Sources}

ValidateCall ==
    /\ call.fn = "_validate_code" /\ call.n = 0
    /\ call' = [call EXCEPT !.n = 1, !.ret = ValidateCode(call.code)]
    /\ UNCHANGED <<running, latest_tick, agents, thr, producers, ctl, nctl, returned, last,
                   feed, chart_history, db_queue, db, db_worker, wlog>>

NextBrain == ValidateCall

SpecBrain == InitBrain /\ [][NextBrain]_vars

\* ===================================================================
\* Properties of the ledger (checked under SpecLedger)
\* ===================================================================
HadTurn == last.name # None
Pre == last.pre
Post == last.step.post
Final == last.step.final

\* C1: at the end of every agent's turn (after execution and after any
\* cash-out or emergency stop) the stored equity equals cash plus the sum of
\* holdings[s] * price[s] at that tick's snapshot prices.
C1_EquityIdentity ==
    HadTurn => FEq(Final.equity, MarkToMarket(Final, last.tickers))

\* long and short notional are each at most 4 x equity at the given prices
WithinLeverage(data, tickers) ==
    LET limit == FMul(MarkToMarket(data, tickers), MaxLeverage)
    IN FLe(LongValue(data, tickers), limit) /\ FLe(ShortValue(data, tickers), limit)

\* C2: at the end of every agent turn the long notional and the short
\* notional of the account are each at most 4 x its equity.
C2_LeverageBound ==
    HadTurn => WithinLeverage(Final, last.tickers)

\* C3: _execute_order never fills an order that takes an account from within
\* the 4 x equity bound to beyond it at the same snapshot prices.
C3_FillKeepsLeverage ==
    (HadTurn /\ last.step.executed /\ WithinLeverage(Pre, last.tickers))
        => WithinLeverage(Post, last.tickers)

\* C4: when _execute_order returns executed = False the account is exactly
\* as before the call.
C4_RejectIsNoOp ==
    (HadTurn /\ last.step.called /\ ~last.step.executed) => Post = Pre

\* the executed intent is a BUY on a symbol the account is short in, with a
\* quantity no larger than the short position
IsCover ==
    /\ HadTurn /\ last.step.called
    /\ last.step.decision = "BUY"
    /\ FLt(Pre.portfolio[last.step.symbol], 0)
    /\ FGt(last.step.quantity, 0)
    /\ FLe(last.step.quantity, FNeg(Pre.portfolio[last.step.symbol]))

\* C5 (as claimed): a cover is always filled.
C5_CoverAlwaysFilled == IsCover => last.step.executed

\* cost plus fee of the intent at the fill price of slippage draw sl
TotalReq(sl) ==
    LET price == SlippedPrice("BUY", PriceOf(last.tickers, last.step.symbol), sl)
        cost == FMul(last.step.quantity, price)
    IN FAdd(cost, FeeOf(cost))

\* C5 (amended): a cover is filled whenever the symbol has a positive price
\* in the snapshot and the account's cash is at least cost plus fee (for every
\* slippage draw), whatever the remaining buying power.
C5_CoverFilledIfCash ==
    (IsCover /\ PriceOf(last.tickers, last.step.symbol) > 0
        /\ \A sl \in Slippages : FGe(Pre.cash, TotalReq(sl)))
        => last.step.executed

\* C5 witness: a cover was filled although its cost exceeded the remaining
\* buying power 4 x equity - long notional.
C5_Witness ==
    /\ IsCover /\ last.step.executed
    /\ FLt(FSub(FMul(MarkToMarket(Pre, last.tickers), MaxLeverage), LongValue(Pre, last.tickers)),
           FMul(last.step.quantity,
                SlippedPrice("BUY", PriceOf(last.tickers, last.step.symbol), last.step.slip)))

\* a BUY/SELL result whose quantity is no non-negative finite number (a
\* numeric string counts as the number float() makes of it), or whose symbol
\* is not tradable, or a result that is no 3-tuple
InvalidIntent(out) ==
    \/ out.kind = "nontuple"
    \/ /\ out.kind = "ret"
       /\ out.decision \in {"BUY", "SELL"}
       /\ \/ out.symbol \notin Symbols
          \/ ~ToFloat(out.quantity).ok
          \/ ~IsFinite(out.quantity.v)
          \/ out.quantity.v < 0

\* C8: an invalid intent is coerced to HOLD: no order is executed for it.
C8_InvalidIntentNotExecuted ==
    (HadTurn /\ InvalidIntent(last.out)) => ~last.step.executed

\* an order was filled in the turn
Filled == HadTurn /\ last.step.executed

\* the price the order of the turn was filled at
FillPrice ==
    SlippedPrice(last.step.decision, PriceOf(last.tickers, last.step.symbol), last.step.slip)

\* a symbol has an entry price exactly when it is held
EntryIffHolding(data) ==
    \A s \in Symbols : (s \in DOMAIN data.entry_prices) <=> (data.portfolio[s] # 0)

\* the filled order took the position in its symbol to zero
ClosedPosition ==
    /\ Filled
    /\ Pre.portfolio[last.step.symbol] # 0
    /\ Post.portfolio[last.step.symbol] = 0

\* the filled order took the position from long to short or from short to long
FlippedPosition ==
    /\ Filled
    /\ \/ FGt(Pre.portfolio[last.step.symbol], 0) /\ FLt(Post.portfolio[last.step.symbol], 0)
       \/ FLt(Pre.portfolio[last.step.symbol], 0) /\ FGt(Post.portfolio[last.step.symbol], 0)

\* C26: after every filled order, cash-out or emergency stop a symbol has a
\* recorded entry price if and only if the holding in it is non-zero; a full
\* close removes the entry price and a flip of direction replaces it with the
\* fill price.
C26_EntryIffHolding ==
    /\ Filled => EntryIffHolding(Post)
    /\ ClosedPosition => last.step.symbol \notin DOMAIN Post.entry_prices
    /\ FlippedPosition => EntryOf(Post, last.step.symbol) = FillPrice
    /\ (HadTurn /\ (last.step.cashout \/ last.step.emergency)) => EntryIffHolding(Final)

\* C26 witness: a filled order closed a position whose entry price was
\* recorded.
C26_Witness ==
    /\ ClosedPosition
    /\ last.step.symbol \in DOMAIN Pre.entry_prices

\* the filled order added to a position of its own direction
AddedToPosition ==
    /\ Filled
    /\ \/ last.step.decision = "BUY" /\ FGt(Pre.portfolio[last.step.symbol], 0)
       \/ last.step.decision = "SELL" /\ FLt(Pre.portfolio[last.step.symbol], 0)

\* quantity-weighted average of the previous entry price and the fill price
WeightedEntry ==
    LET prev_qty == FAbs(Pre.portfolio[last.step.symbol])
        prev_entry == EntryOf(Pre, last.step.symbol)
    IN FDiv(FAdd(FMul(prev_qty, prev_entry), FMul(last.step.quantity, FillPrice)),
            FAdd(prev_qty, last.step.quantity))

\* C27: when a filled order adds to a position in the same direction (BUY
\* on a long, SELL on a short) the recorded entry price becomes the
\* quantity-weighted average of the previous entry price and the fill price.
C27_WeightedAverageEntry ==
    AddedToPosition => FEq(EntryOf(Post, last.step.symbol), WeightedEntry)

\* the record of the order of the turn
FillRecord ==
    LET notional == FMul(last.step.quantity, FillPrice)
    IN TradeRec(last.step.decision, last.step.symbol, last.step.quantity, FillPrice, FeeOf(notional))

\* C28: every filled order appends exactly one record to trade_history
\* (the oldest dropped beyond 100) and adds exactly one to trades_count, and
\* nothing else changes either, so that trades_count is the number of
\* orders filled since the account was created.
C28_OneRecordPerFill ==
    HadTurn =>
        /\ Filled => /\ Post.trades_count = Pre.trades_count + 1
                     /\ Post.trade_history = AppendTrade(Pre.trade_history, FillRecord)
        /\ ~Filled => /\ Post.trades_count = Pre.trades_count
                      /\ Post.trade_history = Pre.trade_history
        /\ Final.trades_count = Post.trades_count
        /\ Final.trade_history = Post.trade_history
        /\ Len(Final.trade_history) <= HistoryMax
        /\ Final.trades_count = Len(Final.trade_history)

\* the filled order closed all or part of a position at a profit
ProfitableClose ==
    /\ Filled
    /\ FGt(EntryOf(Pre, last.step.symbol), 0)
    /\ \/ /\ last.step.decision = "SELL"
          /\ FGt(Pre.portfolio[last.step.symbol], 0)
          /\ FGt(FillPrice, EntryOf(Pre, last.step.symbol))
       \/ /\ last.step.decision = "BUY"
          /\ FLt(Pre.portfolio[last.step.symbol], 0)
          /\ FLt(FillPrice, EntryOf(Pre, last.step.symbol))

\* C29: wins is incremented exactly when a filled order closes (all or part
\* of) a position at a profit: a SELL against a long filled above the entry
\* price or a BUY against a short filled below it; nothing else changes wins.
C29_WinsOnProfitableClose ==
    HadTurn =>
        /\ Post.wins = IF ProfitableClose THEN Pre.wins + 1 ELSE Pre.wins
        /\ Final.wins = Post.wins

\* ===================================================================
\* Properties of the clock and the control requests (checked under Spec)
\* ===================================================================

\* C6: in a tick each loaded agent's strategy body is run exactly once,
\* whatever it does, including when it raises an exception of any type.
C6_CalledExactlyOnce == HadTurn => last.calls = 1

\* a turn in which the strategy raised is a HOLD that executes nothing
RaiseIsHold ==
    (HadTurn /\ last.out.kind = "raise")
        => /\ last.step.decision = "HOLD"
           /\ ~last.step.executed
           /\ Post = Pre

\* an agent whose strategy has never returned has the cash and the holdings
\* its account was created with
NeverReturnedUntouched ==
    \A n \in Loaded :
        ~returned[n] => /\ agents[n].cash = STARTING_EQUITY
                        /\ agents[n].portfolio = ZeroPortfolio

\* every step of a clock thread inside the agent loop moves on to the next
\* name of the same tick (or to the bundle after the last one)
LoopGoesOn ==
    \A t \in Threads :
        (thr[t].pc = "agents" /\ thr'[t] # thr[t])
            => /\ thr'[t].idx = thr[t].idx + 1
               /\ thr'[t].names = thr[t].names
               /\ thr'[t].tickers = thr[t].tickers
               /\ thr'[t].pc = IF thr[t].idx < Len(thr[t].names) THEN "agents" ELSE "publish"

\* C7: an agent whose strategy raises on every invocation holds in every
\* tick and its cash and holdings never change, and its failure never ends
\* the tick for the agents after it.
C7_Isolation ==
    /\ [](RaiseIsHold /\ NeverReturnedUntouched)
    /\ [][LoopGoesOn]_vars

\* C7 witness: A1 has never returned, and in the tick in progress A1 got its
\* HOLD row and A2, next in the loop, had an order filled and its equity
\* recomputed.
C7_Witness ==
    /\ "A1" \in Loaded /\ ~returned["A1"]
    /\ last.name = "A2" /\ last.step.executed
    /\ last.step.final.equity # last.pre.equity
    /\ thr[last.thread].pc = "publish"
    /\ thr[last.thread].updates =
          <<[name |-> "A1", last_decision |-> "HOLD"], [name |-> "A2", last_decision |-> "BUY"]>>

\* C9: at no time are the agent loops of two clock threads in progress.
C9_OneAgentLoop ==
    Cardinality({t \in Threads : thr[t].pc = "agents"}) <= 1

\* some clock thread is inside the agent loop of a tick
TickInProgress == \E t \in Threads : thr[t].pc = "agents"

\* the step is one iteration of some clock thread's agent loop
ClockStep == \E t \in Threads : thr[t].pc = "agents" /\ thr'[t] # thr[t]

\* an account is removed, or its cash, holdings, equity or entry prices are
\* written
AccountWritten ==
    \E n \in Loaded :
        \/ n \notin DOMAIN agents'
        \/ agents'[n].cash # agents[n].cash
        \/ agents'[n].portfolio # agents[n].portfolio
        \/ agents'[n].equity # agents[n].equity
        \/ agents'[n].entry_prices # agents[n].entry_prices

\* C10: while a tick's agent loop is in progress only the clock thread
\* writes or removes an account.
C10_OnlyClockWrites ==
    [][(TickInProgress /\ AccountWritten) => ClockStep]_vars

\* C11: the strategy reference of a loaded agent is never replaced while a
\* tick's agent loop is in progress.
C11_ReloadBetweenTicks ==
    [][TickInProgress =>
          \A n \in Loaded :
              n \in DOMAIN agents' => agents'[n].instance = agents[n].instance]_vars

\* the step is a request served at once by the control thread that installs
\* a new strategy reference for the loaded agent n (POST /deploy_agent)
IsReload(n) ==
    /\ ctl = "idle" /\ ctl' = "idle"
    /\ n \in Loaded /\ n \in DOMAIN agents'
    /\ agents'[n].instance # agents[n].instance

\* C12: reloading a loaded agent changes its strategy reference and nothing
\* else of its account (nor any other account).
C12_ReloadKeepsAccount ==
    [][\A n \in Loaded :
          IsReload(n) =>
              /\ [agents'[n] EXCEPT !.instance = agents[n].instance] = agents[n]
              /\ \A m \in Loaded \ {n} : m \in DOMAIN agents' /\ agents'[m] = agents[m]]_vars

\* C12 witness: the agent of the most recent turn traded under its first
\* strategy reference and has been reloaded since, its account as that turn
\* left it.
C12_Witness ==
    /\ HadTurn /\ last.name \in Loaded
    /\ last.step.executed
    /\ last.pre.instance.ver = 1
    /\ agents[last.name].instance.ver = 2
    /\ agents[last.name] = [last.step.final EXCEPT !.instance = Instance(last.name, 2)]

\* ===================================================================
\* Properties of the risk rules (checked under SpecLedger)
\* ===================================================================

\* equity and roi of the account as left by order execution, at the tick's
\* snapshot prices (roi in percent of 100 dollars = dollars above the start)
EquityAfterExecution == MarkToMarket(Post, last.tickers)
RoiAfterExecution == FSub(EquityAfterExecution, STARTING_EQUITY)

\* C13: when the roi computed after execution is at or above the cash-out
\* threshold, the turn ends with cash = equity = 100, roi = 0, no holdings,
\* no entry prices and cashed_out increased by (pre-trigger equity - 100).
C13_CashOutPostcondition ==
    (HadTurn /\ FGe(RoiAfterExecution, CASHOUT_THRESHOLD))
        => /\ Final.cash = STARTING_EQUITY
           /\ Final.equity = STARTING_EQUITY
           /\ Final.roi = 0
           /\ Final.portfolio = ZeroPortfolio
           /\ Final.entry_prices = NoEntries
           /\ Final.cashed_out = FAdd(Post.cashed_out, RoiAfterExecution)

\* C13 witness: a cash-out closed an open position.
C13_Witness ==
    /\ HadTurn /\ last.step.cashout
    /\ Post.portfolio # ZeroPortfolio
    /\ Final.cashed_out > Post.cashed_out

\* C14: when the roi computed after execution is at or below -2, the turn
\* ends with no holdings, no entry prices, every position absorbed into cash
\* at its mark price, equity = cash, and the emergency_stop event emitted.
C14_EmergencyStopTotal ==
    (HadTurn /\ FLe(RoiAfterExecution, EMERGENCY_STOP_LOSS))
        => /\ Final.portfolio = ZeroPortfolio
           /\ Final.entry_prices = NoEntries
           /\ Final.cash = EquityAfterExecution
           /\ Final.equity = Final.cash
           /\ last.step.emergency

\* C14 witness: the stop closed a short position in a tick in which the
\* strategy's own order was filled.
C14_Witness ==
    /\ HadTurn /\ last.step.emergency /\ last.step.executed
    /\ \E s \in Symbols : FLt(Post.portfolio[s], 0)

\* C15: in every turn, whether the strategy returned or failed, each rule is
\* applied once to the account as execution left it (it fires exactly when
\* its threshold is met), and with no open position and roi 0 neither rule
\* fires nor changes the account.
C15_RulesOncePerTurn ==
    HadTurn =>
        /\ last.step.cashout <=> FGe(RoiAfterExecution, CASHOUT_THRESHOLD)
        /\ last.step.emergency <=> FLe(RoiAfterExecution, EMERGENCY_STOP_LOSS)
        /\ (~last.step.cashout /\ ~last.step.emergency)
              => Final = [Post EXCEPT !.equity = EquityAfterExecution, !.roi = RoiAfterExecution]
        /\ (Post.portfolio = ZeroPortfolio /\ RoiAfterExecution = 0)
              => /\ ~last.step.cashout /\ ~last.step.emergency
                 /\ Final.cash = Post.cash /\ Final.portfolio = Post.portfolio
                 /\ Final.cashed_out = Post.cashed_out

\* C15 witness: a rule fired in a turn whose strategy invocation failed.
C15_Witness ==
    /\ HadTurn /\ last.out.kind = "raise"
    /\ last.step.emergency
    /\ Pre.portfolio # ZeroPortfolio /\ Final.portfolio = ZeroPortfolio

\* ===================================================================
\* Properties of the snapshot hand-off (checked under Spec)
\* ===================================================================

\* thread t passes the `ts == last_ts` test and begins a tick
BeginsTick(t) ==
    /\ thr[t].pc = "top"
    /\ thr'[t].pc \in {"agents", "publish"}

\* C16: a snapshot with the timestamp of the last processed snapshot is a
\* no-op, so each published snapshot is processed as a tick at most once:
\* no tick begins on a snapshot on which an agent turn has already run.
C16_ProcessedAtMostOnce ==
    [][\A t \in Threads :
          BeginsTick(t) => ~(HadTurn /\ last.tickers.ts = thr'[t].tickers.ts)]_vars

\* a clock thread inside a tick holds one whole published snapshot: the one
\* whose timestamp it recorded, never newer than the slot's, and equal to
\* the slot's content when the timestamps agree
HoldsWholeSnapshot(t) ==
    thr[t].pc \in {"agents", "publish"} =>
        /\ thr[t].tickers # NoTick
        /\ thr[t].tickers.ts = thr[t].last_ts
        /\ thr[t].tickers.ts <= latest_tick.ts
        /\ (thr[t].tickers.ts = latest_tick.ts => thr[t].tickers = latest_tick)

\* the read at the top of a tick takes the slot's content as it is, and
\* every turn of the tick uses the snapshot read then
SameSnapshotInTick(t) ==
    /\ BeginsTick(t) => thr'[t].tickers = latest_tick
    /\ (thr[t].pc = "agents" /\ thr'[t].pc \in {"agents", "publish"})
          => /\ thr'[t].tickers = thr[t].tickers
             /\ (last' # last /\ last'.thread = t) => last'.tickers = thr[t].tickers

\* C17: every read of the slot by the clock yields one whole snapshot as a
\* fetch published it, and all agents of a tick are evaluated and executed
\* against that snapshot even when a newer one is published meanwhile.
C17_OneSnapshotPerTick ==
    /\ [](\A t \in Threads : HoldsWholeSnapshot(t))
    /\ [][\A t \in Threads : SameSnapshotInTick(t)]_vars

\* C17 witness: both agents of a tick were processed on snapshot 1 although
\* snapshot 2 was published while the tick was in progress.
C17_Witness ==
    \E t \in Threads :
        /\ thr[t].pc = "publish" /\ Len(thr[t].updates) = 2
        /\ thr[t].tickers.ts = 1 /\ latest_tick.ts = 2
        /\ HadTurn /\ last.thread = t /\ last.tickers = thr[t].tickers

\* ===================================================================
\* Properties of stopping (checked under Spec)
\* ===================================================================

\* with running false, a step of a thread inside the agent loop handles the
\* agent at idx and moves to the next one or to the end of the tick
FinishesInFlightTick(t) ==
    (~running /\ thr[t].pc = "agents" /\ thr'[t] # thr[t])
        => /\ thr'[t].idx = thr[t].idx + 1
           /\ thr'[t].names = thr[t].names
           /\ thr'[t].pc = IF thr[t].idx = Len(thr[t].names) THEN "publish" ELSE "agents"

\* with running false, a thread at the top of its loop begins no tick
NoTickWhileStopped(t) ==
    (~running /\ thr[t].pc = "top") => thr'[t].pc \in {"top", "dead"}

\* a tick reaches its end only after the last name of agent_names
TickCoversAllNames(t) ==
    /\ thr[t].pc = "agents" => thr[t].idx \in 1..Len(thr[t].names)
    /\ (thr[t].pc = "publish" /\ thr[t].names # << >>) => thr[t].idx = Len(thr[t].names) + 1

\* C18: when stop_loop sets running to false during a tick, the clock thread
\* still processes every remaining agent of that tick, and begins no further
\* tick while running stays false.
C18_CooperativeStop ==
    /\ [](\A t \in Threads : TickCoversAllNames(t))
    /\ [][\A t \in Threads : FinishesInFlightTick(t) /\ NoTickWhileStopped(t)]_vars

\* C18 witness: the last agent of a tick had its turn after running had
\* become false, the tick is complete and no start has been requested.
C18_Witness ==
    /\ HadTurn /\ ~last.running /\ ~running
    /\ last.name = "A2"
    /\ thr[last.thread].pc = "publish"
    /\ Len(thr[last.thread].updates) = 2

\* ===================================================================
\* Properties of the feed under failures (checked under SpecFeed)
\* ===================================================================

\* a fetch of the producer fails in this step
FetchFailed == feed'.total = feed.total + 1

\* the clock thread t stands before a snapshot it has not processed
NewSnapshotFor(t) ==
    /\ thr[t].pc = "top" /\ running
    /\ latest_tick # NoTick
    /\ latest_tick.ts # thr[t].last_ts

\* C19: a failed fetch (an exception or an empty result) does not end the
\* producer and leaves the published snapshot, the clock threads and the
\* accounts as they are; a producer is alive whenever the arena is running,
\* and a clock thread standing before an unprocessed snapshot can process it.
C19_FeedFailureTolerated ==
    /\ [](running => producers > 0)
    /\ [](\A t \in Threads : NewSnapshotFor(t) => ENABLED LoopTop(t))
    /\ [][FetchFailed =>
            /\ latest_tick' = latest_tick
            /\ producers' = producers
            /\ running' = running
            /\ thr' = thr
            /\ agents' = agents]_vars

\* C19 witness: fetches failed while snapshot 1 was published, a later fetch
\* published snapshot 2 and the clock gave an agent its turn on it.
C19_Witness ==
    /\ feed.total = MaxFail /\ feed.failed_at = 1 /\ feed.consecutive = 0
    /\ latest_tick.ts = 2
    /\ HadTurn /\ last.tickers = latest_tick

\* ===================================================================
\* Properties of the store under failures (checked under SpecStore)
\* ===================================================================

\* the worker takes a record from the queue and its write fails
WriteFailed ==
    /\ Len(db_queue') = Len(db_queue) - 1
    /\ wlog'.fails = wlog.fails + 1

\* C20: a failed write of the worker changes no account, no chart point, no
\* clock thread and neither running nor the snapshot slot; the worker stays
\* alive and has taken exactly that record from the queue.
C20_StoreFailureTolerated ==
    /\ [](db_worker = "running")
    /\ [][WriteFailed =>
            /\ agents' = agents
            /\ chart_history' = chart_history
            /\ thr' = thr
            /\ running' = running
            /\ latest_tick' = latest_tick
            /\ db_queue' = Tail(db_queue)]_vars

\* C20 witness: a write failed while snapshot 1 was the newest, the clock then
\* gave an agent its turn on snapshot 2, and the worker's latest write, of a
\* later record, succeeded.
C20_Witness ==
    /\ wlog.fails >= 1 /\ wlog.failed_at = 1
    /\ wlog.ok /\ wlog.op = "agents_bulk"
    /\ HadTurn /\ last.tickers.ts = 2
    /\ "A1" \in DOMAIN db.agents

\* ===================================================================
\* Properties of the persistence queue (checked under SpecStore, SpecStop)
\* ===================================================================

\* C21: the number of records waiting for the worker never exceeds a fixed
\* bound, records being dropped when the worker falls behind: in particular
\* the queue never holds every record the ticks of a run have enqueued
\* (one chart point and one account record per tick).
C21_QueueBounded ==
    Len(db_queue) < 2 * MaxTs

\* thread t ends a tick whose agent loop has completed
TickEnds(t) ==
    /\ thr[t].pc = "publish"
    /\ thr'[t].pc = "top"

\* C22: every tick whose agent loop completes, also the one that finishes
\* after a stop request, enqueues exactly one record holding the state of
\* every loaded account.
C22_AccountsEnqueuedEveryTick ==
    [][\A t \in Threads :
          TickEnds(t) =>
              db_queue' = Append(db_queue, [op |-> "agents_bulk", data |-> States(agents)])]_vars

\* ===================================================================
\* Properties of load_agent (checked under SpecLoad)
\* ===================================================================
Loading == call.fn = "load_agent"

\* the account of name n is as load_agent creates it
FreshlyCreated(n) ==
    /\ n \in Loaded
    /\ agents[n].cash = STARTING_EQUITY /\ agents[n].equity = STARTING_EQUITY
    /\ agents[n].portfolio = ZeroPortfolio
    /\ agents[n].entry_prices = NoEntries

\* C23: load_agent returns True only for a file that defines
\* execute_strategy; the first successful load of a name creates its account
\* with cash = equity = 100, no holdings and no entry prices; and after
\* load_agent has returned False for a name that was not loaded, no account
\* exists for that name.
C23_LoadAgentResult ==
    Loading =>
        /\ call.ret => call.file = "ok"
        /\ (call.ret /\ ~call.was_loaded) => FreshlyCreated(call.name)
        /\ (~call.ret /\ ~call.was_loaded) => call.name \notin Loaded

\* ===================================================================
\* Properties of the fee (checked under SpecFee)
\* ===================================================================
FeesComputed == call.fn = "fee" /\ call.n = 1

\* q2 is at least twice q1
AtLeastDouble(q1, q2) ==
    q2.e >= q1.e + 2 \/ (q2.e = q1.e + 1 /\ q2.m >= q1.m)

Validated == call.fn = "_validate_code" /\ call.n = 1

\* the statement imports module m or something of it
ImportsModule(node, m) == Head(node.module) = m

ImportsForbidden(code) ==
    \E node \in code.imports : \E m \in Blacklist : ImportsModule(node, Head(m))

HasStrategy(code) ==
    \E node \in code.defs :
        /\ node.top
        /\ node.name = "execute_strategy"
        /\ node.args \in 4..6

\* C25: _validate_code rejects every source that imports os, sys,
\* subprocess or requests through an import or from-import statement,
\* rejects every source without a top-level execute_strategy function of
\* 4 to 6 parameters, and accepts a source that satisfies both conditions.
C25_ValidateCode ==
    Validated =>
        /\ ImportsForbidden(call.code) => ~call.ret
        /\ ~HasStrategy(call.code) => ~call.ret
        /\ (call.code.parses /\ ~ImportsForbidden(call.code) /\ HasStrategy(call.code)) => call.ret

\* ===================================================================
\* Properties of one fill in floating point (checked under SpecFill)
\* ===================================================================
FloatFilled == call.fn = "_execute_order" /\ call.n = 1 /\ call.ret.executed

\* the fill price is on the trader's wrong side of the snapshot price
PricedAgainstTrader ==
    IF call.decision = "BUY" THEN FloatLe(call.snapshot, call.ret.price)
    ELSE FloatLe(call.ret.price, call.snapshot)

\* equity at the snapshot price before and after the order
EquityBefore == FloatEquity(call.data, call.snapshot)
EquityAfter == FloatEquity(call.ret.data, call.snapshot)

C31_PublishAfterAgents ==
    [][(chart_history' # chart_history \/ Len(db_queue') > Len(db_queue))
          => \E t \in Threads : thr[t].pc = "publish" /\ thr'[t].pc = "top"]_vars

\* ------------------------------------------------------------------ C32
\* C32: the tick index passed to the strategies never decreases from one
\* turn to the next, and never repeats for an agent that has two turns in a
\* row, also across stop and start of the clock (one clock thread is alive,
\* so the turns are those of successive ticks)
C32_TickIndexIncreases ==
    [][(last' # last /\ last.name # None
        /\ Cardinality({t \in Threads : Alive(t)}) = 1)
          => /\ last'.tick >= last.tick
             /\ last'.name = last.name => last'.tick > last.tick]_vars

\* ------------------------------------------------------------------ C33
\* C33: unloading or loading an agent from the control thread while a tick
\* is in progress never keeps the tick from completing: a clock thread that
\* is in its agent loop stays in the loop or goes on to publish, it never
\* drops the rest of the tick
C33_TickCompletes ==
    [][\A t \in Threads :
          thr[t].pc \in {"agents", "lookup"}
             => thr'[t].pc \in {"agents", "lookup", "publish"}]_vars

\* ------------------------------------------------------------------ C34
\* C34: every account record the write worker stores equals the account's
\* state at the end of one single tick, the tick that enqueued the record:
\* after a successful 'agents_bulk' write each written document is the
\* account as it was put on the queue
C34_WrittenIsOneTick ==
    [][(db_queue # << >> /\ db' # db /\ wlog'.ok /\ Head(db_queue).op = "agents_bulk")
          => \A n \in DOMAIN Head(db_queue).data :
                db'.agents[n] = Head(db_queue).data[n]]_vars

\* ------------------------------------------------------------------ C35
\* a tick of an agent that an emergency stop left without a position and
\* with roi <= -2
AfterStop == call.fn = "tick" /\ call.n >= 1

\* the float next above a positive float
FloatNext(a) ==
    IF a.m = Pow2(MantBits) - 1 THEN MiniFloat(Pow2(MantBits - 1), a.e + 1)
    ELSE MiniFloat(a.m + 1, a.e)

\* C35 as stated: in every tick after an emergency stop the agent's equity
\* does not rise, the agent ends the tick with no position, and the
\* emergency stop fires again.
C35_EquityNeverRises ==
    AfterStop
        => /\ FloatLe(call.ret.equity, call.pre.cash)
           /\ call.data.qty = FloatZero
           /\ call.ret.emergency

\* C35: in every tick after an emergency stop the agent ends the tick with
\* no position (an order filled in the tick is liquidated in the same tick),
\* the emergency stop fires again, and the equity ends at most one float
\* above the equity before the tick; it ends at or below it when no order
\* was filled.
C35_StopPersists ==
    AfterStop
        => /\ call.data.qty = FloatZero
           /\ call.ret.emergency /\ ~call.ret.cashout
           /\ call.ret.equity = call.data.cash
           /\ FloatLe(call.ret.equity, FloatNext(call.pre.cash))
           /\ ~call.ret.executed => call.ret.equity = call.pre.cash

\* C35 witness: in the second tick after the stop an order was filled, and
\* the stop fired again and closed the position at a lower equity.
C35_Witness ==
    /\ AfterStop /\ call.n = 2
    /\ call.ret.executed /\ call.ret.post.qty # FloatZero
    /\ call.ret.emergency /\ call.data.qty = FloatZero
    /\ FloatLt(call.ret.equity, call.pre.cash)

\* ------------------------------------------------------------------ C36
\* C36: a reload of a loaded agent that fails (no file, a module that raises
\* while it is executed, a module without execute_strategy) returns False
\* and changes no account, the module reference of the agent included, and
\* nothing in the store.
C36_FailedReloadKeepsAgent ==
    [][(call'.n = call.n + 1 /\ call'.fn = "load_agent"
        /\ call'.was_loaded /\ call'.file # "ok")
          => /\ ~call'.ret
             /\ agents' = agents
             /\ db' = db]_vars

\* C36 witness: the agent was loaded and reloaded, then a reload failed on a
\* module that raises; the reference of the second load is still in place.
C36_Witness ==
    /\ Loading /\ call.was_loaded /\ call.file = "raises" /\ ~call.ret
    /\ call.name \in Loaded
    /\ agents[call.name].instance = Instance(call.name, 2)

\* ------------------------------------------------------------------ C37
\* C37: the in-memory chart history never holds more points than its bound
\* (ChartMax stands for the 50,000 of the deque), after any sequence of
\* ticks, reset and soft_reset.
C37_ChartBounded == Len(chart_history.points) <= ChartMax

\* ------------------------------------------------------------------ C38
\* C38: every failed fetch makes the producer's delay before the next fetch
\* larger than it was after the fetch before, until the delay has reached
\* the cap (the longest delay the producer has), and a successful fetch
\* brings the delay back to the poll interval.
C38_BackoffGrows ==
    [][/\ FetchFailed => (feed'.delay > feed.delay \/ feed'.delay = ErrorDelay)
       /\ latest_tick' # latest_tick => feed'.delay = PollDelay]_vars

\* ------------------------------------------------------------------ C39
\* C39: when soft_reset completes, every agent that was loaded is still
\* loaded and its account equals a freshly loaded account (cash = equity =
\* 100, roi 0, no holdings, no entry prices, empty custom state and trade
\* history, cashed_out 0, total fees 0, trade and win counters 0).
C39_SoftResetFreshAccounts ==
    [][(ctl = "soft_reset" /\ ctl' = "idle")
          => \A n \in Loaded :
                /\ n \in DOMAIN agents'
                /\ Stored(agents'[n]) = Stored(NewAccount(Instance(n, 1)))]_vars

\* ------------------------------------------------------------------ C40
\* _restore_state has run; `call.saved` holds the documents it found
Restored == call.fn = "_restore_state" /\ call.n = 1

\* the fields of an account that the round trip is to preserve
RoundTripFields ==
    {"cash", "equity", "portfolio", "entry_prices", "custom_state", "trade_history",
     "trades_count", "wins", "cashed_out"}

\* C40: after a restart every persisted agent whose file loads has an
\* account whose cash, equity, holdings, entry prices, custom state, trade
\* history, counters and cashed_out total equal the values last written to
\* the store for it, and the store still holds those values.
C40_RoundTrip ==
    Restored =>
        \A n \in DOMAIN call.saved :
            (call.files[n] = "ok" /\ call.saves[n])
                => /\ n \in Loaded
                   /\ \A f \in RoundTripFields : agents[n][f] = call.saved[n][f]
                   /\ n \in DOMAIN db.agents
                   /\ db.agents[n] = call.saved[n]

====
